---- MODULE Spec2Model ----
(***************************************************************************)
(* A model of the modbot vouch ledger (vouch_db.py), of the moderation     *)
(* pipeline (moderation.py) and of the message handlers that use both      *)
(* (modbot/handlers/messages.py, modbot/services/vouches.py).              *)
(*                                                                         *)
(* Strings that the code inspects character by character (user names,      *)
(* handles, search queries) are sequences of one-character strings, so     *)
(* that lower-casing, '@' stripping and substring search are computed.     *)
(* Python's None / SQL NULL is the sequence NoneStr for a string column    *)
(* and the number Null for an integer column.                              *)
(***************************************************************************)
EXTENDS Integers, Sequences, FiniteSets, TLC

VARIABLES
    vouches,           \* table vouches, in rowid order
    nextRowId,         \* AUTOINCREMENT counter of table vouches
    username_history,  \* table username_history, in rowid order
    storage,           \* the SQLite file: "up", or "down" when every access raises
    now,               \* wall clock, epoch seconds
    last,              \* the latest ledger call made through the API: op, args, ret
    handlers,          \* the handler executions in flight, one record each
    chatLog,           \* transport: per message id, who posted it and whether it is deleted
    nextMsgId,         \* transport: next message id the chat assigns
    storeCalls,        \* every store_vouch call made by a handler: handler, args, ret
    processed,         \* _processed_messages: (chat id, message id) and time seen
    message_tracker,   \* message_tracker: per user, the times of recent messages
    link_tracker,      \* link_tracker: per user, the times of recent links
    user_strikes,      \* _user_strikes: per user, strikes, last violation, violations
    vouch_retry_attempts, \* table vouch_retry_attempts: the set of its rows
    sync_state,        \* table sync_state: the set of its rows
    velocity_tracker,  \* moderation_prime.velocity_tracker: per user, timestamps
    cleanup_counter,   \* moderation_prime._cleanup_counter
    restricted         \* transport: the users the chat has muted (restrict_chat_member)

vars == <<vouches, nextRowId, username_history, storage, now, last, handlers,
          chatLog, nextMsgId, storeCalls, processed, message_tracker, link_tracker,
          user_strikes, vouch_retry_attempts, sync_state, velocity_tracker,
          cleanup_counter, restricted>>

ledgerVars == <<vouches, nextRowId, username_history, storage,
                vouch_retry_attempts, sync_state>>
primeVars == <<velocity_tracker, cleanup_counter>>
botVars == <<handlers, chatLog, nextMsgId, storeCalls, processed, message_tracker,
            link_tracker, user_strikes, primeVars, restricted>>

----------------------------------------------------------------------------
(* Bounds of the model *)

\* rows ever inserted into vouches
MaxRows == 2
\* rows ever inserted into username_history
MaxHist == 2
\* clock advances
MaxTicks == 2
\* seconds per clock advance
TickSeconds == 50000
\* messages delivered to the bot
MaxMsgs == 2
\* messages delivered while the storage fails and recovers
OutageMsgs == 1
\* messages one user sends within a rate-limit window
FloodMsgs == 6

\* attempts tracked for one key
MaxAttempts == 3
\* seconds the clock advances between ledger calls
RetrySpan == 700

\* rows stored for a leaderboard
TopRows == 3

\* seconds the clock advances between calls of track_user_activity
ActivitySpan == 10

\* vouches found by the scans of one chat
MaxFound == 3

\* deliveries of updates, repeated ones included
MaxDeliveries == 3
\* seconds over which the deliveries are spread
DedupSpan == 601
\* calls of layer3_velocity_check
MaxVelocityCalls == 5
\* seconds over which the calls of layer3_velocity_check are spread
VelocitySpan == 12

----------------------------------------------------------------------------
(* Values *)

Null == 0 - 1
NoneStr == <<"NULL">>

UpperCase ==
    << "A", "B", "C", "D", "E", "F", "G", "H", "I", "J", "K", "L", "M",
       "N", "O", "P", "Q", "R", "S", "T", "U", "V", "W", "X", "Y", "Z" >>

LowerCase ==
    << "a", "b", "c", "d", "e", "f", "g", "h", "i", "j", "k", "l", "m",
       "n", "o", "p", "q", "r", "s", "t", "u", "v", "w", "x", "y", "z" >>

LowerChar(c) ==
    IF \E i \in DOMAIN UpperCase : UpperCase[i] = c
    THEN LowerCase[CHOOSE i \in DOMAIN UpperCase : UpperCase[i] = c]
    ELSE c

\* str.lower()
Lower(s) == [i \in 1..Len(s) |-> LowerChar(s[i])]

\* str.lstrip("@")
RECURSIVE LStripAt(_)
LStripAt(s) == IF Len(s) > 0 /\ Head(s) = "@" THEN LStripAt(Tail(s)) ELSE s

\* the truth value Python gives a string argument: None and "" are false
Truthy(s) == s # NoneStr /\ s # << >>

normalize_for_index(s) == IF Truthy(s) THEN Lower(s) ELSE NoneStr

\* SQL `col = ?`: never true when either side is NULL
SqlEqStr(col, param) == col # NoneStr /\ param # NoneStr /\ col = param
SqlEqInt(col, param) == col # Null /\ param # Null /\ col = param

Range(f) == {f[i] : i \in DOMAIN f}

----------------------------------------------------------------------------
(* The vouch ledger: vouch_db.py *)

\* seconds of the 24 h duplicate window in check_vouch_duplicate_24h
DupWindowSeconds == 86400

\* check_vouch_duplicate_24h: a row of the same author, lower-cased target and
\* polarity with timestamp > now - 86400
check_vouch_duplicate_24h(vs, t, from_user_id, to_username, polarity) ==
    \E i \in DOMAIN vs :
        /\ vs[i].from_user_id = from_user_id
        /\ SqlEqStr(vs[i].to_username_lower, normalize_for_index(to_username))
        /\ vs[i].polarity = polarity
        /\ vs[i].timestamp > t - DupWindowSeconds

\* the duplicate test of store_vouch: same chat, author, original text and
\* lower-cased target (or NULL target)
StoreDupMatch(r, a) ==
    /\ r.chat_id = a.chat_id
    /\ r.from_user_id = a.from_user_id
    /\ r.original_text = a.original_text
    /\ IF Truthy(normalize_for_index(a.to_username))
       THEN SqlEqStr(r.to_username_lower, normalize_for_index(a.to_username))
       ELSE r.to_username_lower = NoneStr

\* the row store_vouch inserts
NewVouchRow(a, id, t) ==
    [ id |-> id,
      from_user_id |-> a.from_user_id,
      from_username |-> a.from_username,
      from_display_name |-> a.from_display_name,
      from_username_lower |-> normalize_for_index(a.from_username),
      from_display_name_lower |-> normalize_for_index(a.from_display_name),
      to_user_id |-> a.to_user_id,
      to_username |-> a.to_username,
      to_display_name |-> a.to_display_name,
      to_username_lower |-> normalize_for_index(a.to_username),
      to_display_name_lower |-> normalize_for_index(a.to_display_name),
      polarity |-> a.polarity,
      original_text |-> a.original_text,
      canonical_text |-> a.canonical_text,
      chat_id |-> a.chat_id,
      message_id |-> a.message_id,
      is_sanitized |-> a.is_sanitized,
      timestamp |-> t ]

\* store_vouch: [ret, vouches] after the call
store_vouch(vs, id, t, a) ==
    IF \E i \in DOMAIN vs : StoreDupMatch(vs[i], a)
    THEN [ret |-> FALSE, vouches |-> vs]
    ELSE [ret |-> TRUE, vouches |-> Append(vs, NewVouchRow(a, id, t))]

\* the rows delete_vouch_by_message selects: WHERE message_id = ? AND chat_id = ?
DeleteMatch(r, message_id, chat_id) ==
    SqlEqInt(r.message_id, message_id) /\ r.chat_id = chat_id

\* DeleteRemoves without `AND from_user_id = ?` in the non-admin DELETE
DeleteRemovesAnyAuthor(r, message_id, chat_id, user_id, is_admin) ==
    DeleteMatch(r, message_id, chat_id)

\* the rows delete_vouch_by_message removes once the ownership check passed
DeleteRemoves(r, message_id, chat_id, user_id, is_admin) ==
    /\ DeleteMatch(r, message_id, chat_id)
    /\ (is_admin \/ r.from_user_id = user_id)

\* delete_vouch_by_message: [ok, reason, vouches]. fetchone() is the first
\* matching row of the table scan.
delete_vouch_by_message(vs, message_id, chat_id, user_id, is_admin) ==
    LET Hit(r) == DeleteMatch(r, message_id, chat_id)
        found == SelectSeq(vs, Hit)
        Keep(r) == ~DeleteRemoves(r, message_id, chat_id, user_id, is_admin)
    IN  IF found = << >>
        THEN [ok |-> FALSE, reason |-> "not_found", vouches |-> vs]
        ELSE IF Head(found).from_user_id # user_id /\ ~is_admin
        THEN [ok |-> FALSE, reason |-> "not_owner", vouches |-> vs]
        ELSE [ok |-> TRUE, reason |-> "deleted", vouches |-> SelectSeq(vs, Keep)]

\* the WHERE clause of the call without chat filter, whatever chat_id is
ResolveMatchAnyChat(r, chat_id, norm) ==
    /\ \/ SqlEqStr(r.to_username_lower, norm)
       \/ r.to_username_lower = NoneStr /\ r.to_username # NoneStr
          /\ Lower(r.to_username) = norm
    /\ (r.to_user_id = Null \/ r.to_user_id = 0)

\* the WHERE clause without its test of to_user_id
ResolveMatchResolved(r, chat_id, norm) ==
    /\ \/ SqlEqStr(r.to_username_lower, norm)
       \/ r.to_username_lower = NoneStr /\ r.to_username # NoneStr
          /\ Lower(r.to_username) = norm
    /\ (chat_id = Null \/ r.chat_id = chat_id)

\* the WHERE clause of the UPDATE in update_vouches_with_resolved_user_id;
\* chat_id = Null is the call with chat_id None
ResolveMatch(r, chat_id, norm) ==
    /\ \/ SqlEqStr(r.to_username_lower, norm)
       \/ r.to_username_lower = NoneStr /\ r.to_username # NoneStr
          /\ Lower(r.to_username) = norm
    /\ (chat_id = Null \/ r.chat_id = chat_id)
    /\ (r.to_user_id = Null \/ r.to_user_id = 0)

\* the INSERT INTO username_history of update_vouches_with_resolved_user_id
RecordUsernameHistory(hist, t, user_id, norm) ==
    Append(hist, [user_id |-> user_id, username_lower |-> norm, first_seen |-> t])

\* update_vouches_with_resolved_user_id: [ret, vouches, username_history]
update_vouches_with_resolved_user_id(vs, hist, t, chat_id, username, user_id) ==
    IF ~Truthy(username)
    THEN [ret |-> 0, vouches |-> vs, username_history |-> hist]
    ELSE LET norm == Lower(LStripAt(username))
             Hit(r) == ResolveMatch(r, chat_id, norm)
         IN  [ ret |-> Len(SelectSeq(vs, Hit)),
               vouches |-> [i \in DOMAIN vs |->
                              IF Hit(vs[i])
                              THEN [vs[i] EXCEPT !.to_user_id = user_id]
                              ELSE vs[i]],
               username_history |-> RecordUsernameHistory(hist, t, user_id, norm) ]

\* str.strip(): leading and trailing blanks removed
RECURSIVE LStripBlank(_)
LStripBlank(s) == IF Len(s) > 0 /\ Head(s) = " " THEN LStripBlank(Tail(s)) ELSE s
RECURSIVE RStripBlank(_)
RStripBlank(s) ==
    IF Len(s) > 0 /\ s[Len(s)] = " " THEN RStripBlank(SubSeq(s, 1, Len(s) - 1)) ELSE s
Strip(s) == RStripBlank(LStripBlank(s))

\* SQL `col LIKE '%pat%'` for a pattern without '%': pat occurs in col, each '_'
\* of pat standing for any one character; NULL never matches
Like(col, pat) ==
    /\ col # NoneStr
    /\ \E k \in 0..(Len(col) - Len(pat)) :
           \A i \in 1..Len(pat) : pat[i] = "_" \/ col[k + i] = pat[i]

\* the limit search_vouches takes by default
DefaultSearchLimit == 20

\* the WHERE clause of search_vouches; chat_id and polarity filter only when truthy
SearchMatch(r, clean_query, chat_id, polarity) ==
    /\ \/ Like(r.from_username_lower, clean_query)
       \/ Like(r.to_username_lower, clean_query)
       \/ Like(r.from_display_name_lower, clean_query)
       \/ Like(r.to_display_name_lower, clean_query)
    /\ (chat_id # Null /\ chat_id # 0) => r.chat_id = chat_id
    /\ polarity # "" => r.polarity = polarity

\* ORDER BY timestamp DESC: rows of equal timestamp stay in rowid order
RECURSIVE InsertNewestFirst(_, _)
InsertNewestFirst(sorted, r) ==
    IF sorted = << >> THEN <<r>>
    ELSE IF Head(sorted).timestamp >= r.timestamp
         THEN <<Head(sorted)>> \o InsertNewestFirst(Tail(sorted), r)
         ELSE <<r>> \o sorted
RECURSIVE OrderNewestFirst(_)
OrderNewestFirst(rows) ==
    IF rows = << >> THEN << >>
    ELSE InsertNewestFirst(OrderNewestFirst(SubSeq(rows, 1, Len(rows) - 1)),
                           rows[Len(rows)])

\* search_vouches: the matching rows, newest first, at most limit of them
search_vouches(vs, query, chat_id, polarity, limit) ==
    LET clean_query == Lower(LStripAt(Strip(query)))
        Hit(r) == SearchMatch(r, clean_query, chat_id, polarity)
        ordered == OrderNewestFirst(SelectSeq(vs, Hit))
    IN  SubSeq(ordered, 1, IF Len(ordered) < limit THEN Len(ordered) ELSE limit)


\* the WHERE clause of get_top_vouchers; chat_id filters only when truthy
TopMatch(r, chat_id, days, polarity, t) ==
    /\ r.timestamp > t - days * 86400
    /\ (chat_id # Null /\ chat_id # 0) => r.chat_id = chat_id
    /\ polarity # "all" => r.polarity = polarity

\* a ranking by author id, whatever the counts
get_top_vouchers_ById(vs, chat_id, days, limit, polarity, t) ==
    LET hits == {i \in DOMAIN vs : TopMatch(vs[i], chat_id, days, polarity, t)}
        Group(u) == {i \in hits : vs[i].from_user_id = u}
        RECURSIVE Ranked(_)
        Ranked(S) ==
            IF S = {} THEN << >>
            ELSE LET top == CHOOSE u \in S : \A v \in S : u <= v
                 IN  <<top>> \o Ranked(S \ {top})
        Row(u) == [ from_user_id |-> u,
                    from_username |-> vs[CHOOSE i \in Group(u) : TRUE].from_username,
                    from_display_name |->
                        vs[CHOOSE i \in Group(u) : TRUE].from_display_name,
                    vouch_count |-> Cardinality(Group(u)) ]
        ranked == Ranked({vs[i].from_user_id : i \in hits})
    IN  [k \in 1..(IF Len(ranked) < limit THEN Len(ranked) ELSE limit) |->
            Row(ranked[k])]

\* get_top_vouchers: GROUP BY from_user_id ORDER BY vouch_count DESC LIMIT ?.
\* The groups are read along idx_from_user_id and the sort keeps groups of
\* equal count in that order; from_username and from_display_name are bare
\* columns, taken from one row of the group
get_top_vouchers(vs, chat_id, days, limit, polarity, t) ==
    LET hits == {i \in DOMAIN vs : TopMatch(vs[i], chat_id, days, polarity, t)}
        Group(u) == {i \in hits : vs[i].from_user_id = u}
        RECURSIVE Ranked(_)
        Ranked(S) ==
            IF S = {} THEN << >>
            ELSE LET top == CHOOSE u \in S : \A v \in S :
                                \/ Cardinality(Group(u)) > Cardinality(Group(v))
                                \/ /\ Cardinality(Group(u)) = Cardinality(Group(v))
                                   /\ u <= v
                 IN  <<top>> \o Ranked(S \ {top})
        Row(u) == [ from_user_id |-> u,
                    from_username |-> vs[CHOOSE i \in Group(u) : TRUE].from_username,
                    from_display_name |->
                        vs[CHOOSE i \in Group(u) : TRUE].from_display_name,
                    vouch_count |-> Cardinality(Group(u)) ]
        ranked == Ranked({vs[i].from_user_id : i \in hits})
    IN  [k \in 1..(IF Len(ranked) < limit THEN Len(ranked) ELSE limit) |->
            Row(ranked[k])]

----------------------------------------------------------------------------
(* Inputs *)

Bob == <<"b", "o", "b">>
BobCaps == <<"B", "o", "b">>
Al == <<"a", "l">>
Cy == <<"c", "y">>
AtBob == <<"@", "b", "o", "b">>

\* a message text is a sequence of tokens: a word, or an @mention of a handle
W(w) == [word |-> w, at |-> << >>]
M(h) == [word |-> "", at |-> h]

TextVouchBob == <<W("vouch"), M(Bob), W("great")>>
TextRepBob == <<W("+rep"), M(BobCaps)>>
TextVouchBobCy == <<W("vouch"), M(Bob), M(Cy)>>
TextNegBob == <<W("scammer"), M(Bob)>>
TextDirtyBob == <<W("vouch"), M(Bob), W("buy"), W("meth")>>
TextDirtyBobCheap == <<W("vouch"), M(Bob), W("buy"), W("meth"), W("cheap")>>
TextKysBob == <<W("vouch"), M(Bob), W("kys")>>
TextRequest == <<W("anyone"), W("vouch"), M(Bob)>>
TextRequestCaps == <<W("ANYONE"), W("VOUCH"), M(Bob)>>
TextHello == <<W("hello")>>
TextLink == <<W("see"), W("https://t.me/x")>>
TextMeth == <<W("buy"), W("meth"), W("here")>>
TextRequestMeth == <<W("anyone"), W("vouch"), M(Bob), W("buy"), W("meth")>>

TextMentionPreteen == <<W("hello"), M(<<"p", "r", "e", "t", "e", "e", "n">>)>>
TextMentionKys == <<W("hello"), M(<<"k", "y", "s">>)>>

TextCritical == <<W("child"), W("porn"), W("here")>>
TextCriticalAlert == <<W("scam"), W("alert"), W("child"), W("porn")>>

UserIds == {1, 2}
ChatIds == {10, 20}
MessageIds == {100, 101}

\* the name and first name Telegram reports for a user
UsernameOf(u) == IF u = 1 THEN Al ELSE Bob
FirstNameOf(u) == IF u = 1 THEN <<"A", "l">> ELSE <<"B", "o">>

----------------------------------------------------------------------------
(* Message texts: moderation.py                                            *)
(* A text is a sequence of tokens separated by single blanks: lower-case   *)
(* words, and @mentions of handles made of letters. A keyword of the code  *)
(* matches where its words occur as consecutive word tokens; the handles   *)
(* of the model contain no keyword, except where a claim is about one.     *)

IsMention(tok) == tok.at # << >>

\* len(text)
RECURSIVE TextLen(_)
TextLen(text) ==
    IF text = << >> THEN 0
    ELSE (IF IsMention(Head(text)) THEN 1 + Len(Head(text).at)
                                   ELSE Len(Head(text).word))
         + (IF Len(text) > 1 THEN 1 ELSE 0) + TextLen(Tail(text))

\* extract_mentions: the handles matched by MENTION_REGEX, in order, without '@'
extract_mentions(text) ==
    LET ms == SelectSeq(text, IsMention)
    IN  [i \in DOMAIN ms |-> ms[i].at]

\* s occurs in t
Contains(t, s) ==
    \E k \in 0..(Len(t) - Len(s)) : \A i \in 1..Len(s) : t[k + i] = s[i]

\* the words of phrase occur in text as consecutive word tokens
HasPhrase(text, phrase) ==
    \E k \in 0..(Len(text) - Len(phrase)) :
        \A i \in 1..Len(phrase) : text[k + i].word = phrase[i]

HasAnyPhrase(text, phrases) == \E p \in phrases : HasPhrase(text, p)

\* text.lower(): the capitalised words of the inputs, and the handles
LowerText(text) ==
    LET LowerWord(w) == IF w \in {"VOUCH", "Vouch"} THEN "vouch"
                        ELSE IF w \in {"ANYONE", "Anyone"} THEN "anyone"
                        ELSE w
    IN  [i \in DOMAIN text |->
            [word |-> LowerWord(text[i].word), at |-> Lower(text[i].at)]]

\* the words in which the substring "vouch" occurs
VouchWords == {"vouch", "vouches", "vouched", "vouching", "+vouch", "-vouch"}

\* request_patterns of is_vouch_request, alternatives expanded
RequestPhrases ==
    { <<a, v>> : a \in {"any", "anyone"}, v \in {"vouch", "vouches"} }
    \cup { <<v, "?">> : v \in {"vouch", "vouches"} }
    \cup { <<"can", s, "vouch">> : s \in {"someone", "anyone", "ya", "yall"} }
    \cup { <<"who", "can", "vouch">>, <<"who", "able", "to", "vouch">> }
    \cup { <<n, "vouch">> : n \in {"need", "needs"} }
    \cup { <<n, "a", "vouch">> : n \in {"need", "needs"} }
    \cup { <<"looking", "for", v>> : v \in VouchWords \ {"+vouch", "-vouch"} }
    \cup { <<v, "on">> : v \in {"vouch", "vouches"} }

\* is_vouch_request answering False for every text
is_vouch_request_Never(text) == FALSE

\* is_vouch_request: `"vouch" in text` looks at the text as given, the patterns
\* at its lower-cased form
is_vouch_request(text) ==
    /\ \E i \in DOMAIN text : text[i].word \in VouchWords
    /\ HasAnyPhrase(LowerText(text), RequestPhrases)

\* vouch_keywords of is_vouch, each as the words that contain it
VouchKeywordWords ==
    VouchWords \cup {"+rep", "-rep", "+1", "solid", "legend", "legit", "trusted",
                     "trustworthy", "recommend", "scammer", "scam"}

\* the shortest text is_vouch accepts
MinVouchLen == 5

is_vouch(text) ==
    LET text_lower == LowerText(text)
    IN  /\ TextLen(text) >= MinVouchLen
        /\ ~is_vouch_request(text_lower)
        /\ \E i \in DOMAIN text : text_lower[i].word \in VouchKeywordWords
        /\ \E i \in DOMAIN text : IsMention(text[i])

\* negative_keywords of extract_vouch_info
NegativeWords == {"-vouch", "-rep", "scammer", "scam", "fraud", "fake", "unreliable"}
NegativePhrases ==
    { <<"neg", "vouch">>, <<"negative", "vouch">>, <<"do", "not", "recommend">>,
      <<"dont", "recommend">>, <<"not", "recommend">>, <<"no", "vouch">>,
      <<"never", "vouch">>, <<"dont", "trust">>, <<"not", "legit">>,
      <<"vouch", "against">> }

NoVouchInfo ==
    [ok |-> FALSE, from_username |-> << >>, to_username |-> << >>,
     polarity |-> "pos", excerpt |-> << >>]

\* extract_vouch_info; None is NoVouchInfo
extract_vouch_info(text, from_username) ==
    LET mentions == extract_mentions(text)
        txt_lower == LowerText(text)
        from_norm == Lower(LStripAt(from_username))
        others == {i \in DOMAIN mentions : Lower(mentions[i]) # from_norm}
        pick == IF Truthy(from_username) /\ others # {}
                THEN mentions[CHOOSE i \in others : \A j \in others : i <= j]
                ELSE mentions[1]
    IN  IF \/ TextLen(text) < MinVouchLen
           \/ is_vouch_request(txt_lower)
           \/ mentions = << >>
        THEN NoVouchInfo
        ELSE [ ok |-> TRUE,
               from_username |-> IF Truthy(from_username)
                                 THEN <<"@">> \o LStripAt(from_username)
                                 ELSE << >>,
               to_username |-> <<"@">> \o pick,
               polarity |-> IF \/ \E i \in DOMAIN text :
                                     txt_lower[i].word \in NegativeWords
                               \/ HasAnyPhrase(txt_lower, NegativePhrases)
                            THEN "neg" ELSE "pos",
               excerpt |-> text ]

\* _VOUCH_PREFIX_PATTERN removed from the front of an excerpt, repeatedly; each
\* alternative ends in \s+, so a token must follow it
RECURSIVE StripVouchPrefix(_)
StripVouchPrefix(toks) ==
    IF Len(toks) < 2 THEN toks
    ELSE LET w == toks[1].word
             rest(n) == SubSeq(toks, n + 1, Len(toks))
         IN  IF w \in {"rep", "+rep", "-rep", "vouched"}
             THEN StripVouchPrefix(rest(1))
             ELSE IF /\ w \in {"pos", "positive", "neg", "negative"}
                     /\ toks[2].word = "vouch" /\ Len(toks) > 2
             THEN StripVouchPrefix(rest(2))
             ELSE IF w = "vouch"
             THEN IF toks[2].word = "for" /\ Len(toks) > 2
                  THEN StripVouchPrefix(rest(2))
                  ELSE StripVouchPrefix(rest(1))
             ELSE toks

\* _clean_note_excerpt: vouch prefix, then one leading mention, removed
clean_note_excerpt(excerpt) ==
    LET cleaned == StripVouchPrefix(excerpt)
    IN  IF cleaned # << >> /\ IsMention(Head(cleaned)) THEN Tail(cleaned) ELSE cleaned

Unknown == <<"[", "u", "n", "k", "n", "o", "w", "n", "]">>

\* format_canonical_vouch: the lines of the repost, as a record
format_canonical_vouch(vouch_info) ==
    [ title |-> IF vouch_info.polarity = "pos" THEN "POS VOUCH" ELSE "NEG VOUCH",
      to |-> IF Truthy(vouch_info.to_username) THEN vouch_info.to_username ELSE Unknown,
      frm |-> IF Truthy(vouch_info.from_username) THEN vouch_info.from_username
              ELSE Unknown,
      note |-> clean_note_excerpt(vouch_info.excerpt),
      watchers |-> vouch_info.watchers ]

\* the limit get_prior_vouchers_for_target takes by default, and the cap on tags
MaxWatchers == 5

RECURSIVE DedupSeq(_)
DedupSeq(s) ==
    IF s = << >> THEN << >>
    ELSE LET front == DedupSeq(SubSeq(s, 1, Len(s) - 1))
         IN  IF s[Len(s)] \in Range(front) THEN front ELSE Append(front, s[Len(s)])

FirstN(s, n) == SubSeq(s, 1, IF Len(s) < n THEN Len(s) ELSE n)

\* get_prior_vouchers_for_target(to_username, "pos"): newest first, at most 5
get_prior_vouchers_for_target(vs, to_username, polarity) ==
    LET Hit(r) == /\ SqlEqStr(r.to_username_lower, normalize_for_index(to_username))
                  /\ r.polarity = polarity
    IN  FirstN(OrderNewestFirst(SelectSeq(vs, Hit)), MaxWatchers)

\* _format_prior_watchers: "@name" or the display name of each prior positive
\* voucher, without repeats
format_prior_watchers(vs, target_username) ==
    LET watchers == get_prior_vouchers_for_target(vs, target_username, "pos")
        Named(r) == Truthy(r.from_username) \/ Truthy(r.from_display_name)
        named == SelectSeq(watchers, Named)
        tags == [i \in DOMAIN named |->
                    IF Truthy(named[i].from_username)
                    THEN <<"@">> \o named[i].from_username
                    ELSE named[i].from_display_name]
    IN  FirstN(DedupSeq(tags), MaxWatchers)

\* the entries of BANNED_KEYWORDS_FLAT that the texts of the model can contain
BannedKeywords == { <<"buy", "meth">>, <<"kys">> }

\* the entries of critical_keywords and WHITELIST_PHRASES likewise
CriticalKeywords == { <<"child", "porn">>, <<"cp", "link">>, <<"preteen">> }
\* the entries of critical_keywords without a blank, letter by letter: those a
\* handle can contain
CriticalInHandle == { <<"p", "r", "e", "t", "e", "e", "n">> }
WhitelistPhrases == { <<"scam", "alert">>, <<"drug", "awareness">>, <<"kys", "in", "game">> }

\* gaming_context of is_contextual_violation, as the words that contain an entry
GamingContextWords == {"game", "movie", "film", "book", "story", "joke", "play"}

\* filler_choices of sanitize_text
FillerChoices ==
    {"premium goods", "safe product", "clean service", "trusted item", "solid drop"}

\* sanitize_text: each run of banned keywords becomes one filler, drawn by
\* random.choice
RECURSIVE sanitize_text(_, _, _)
sanitize_text(text, filler, afterRemoved) ==
    IF text = << >> THEN << >>
    ELSE LET hits == {p \in BannedKeywords :
                        /\ Len(p) <= Len(text)
                        /\ \A i \in 1..Len(p) : text[i].word = p[i]}
         IN  IF hits # {}
             THEN LET p == CHOOSE q \in hits : \A o \in hits : Len(q) >= Len(o)
                      rest == SubSeq(text, Len(p) + 1, Len(text))
                  IN  (IF afterRemoved THEN << >> ELSE <<W(filler)>>)
                      \o sanitize_text(rest, filler, TRUE)
             ELSE <<Head(text)>> \o sanitize_text(Tail(text), filler, FALSE)

\* is_contextual_violation for the keywords of BannedKeywords
is_contextual_violation(text, keyword) ==
    IF keyword = <<"buy", "meth">> THEN TRUE
    ELSE ~\E i \in DOMAIN text : text[i].word \in GamingContextWords

ReasonProhibited ==
    << "P", "r", "o", "h", "i", "b", "i", "t", "e", "d", " ", "c", "o",
       "n", "t", "e", "n", "t", ":", " ", "b", "u", "y", " ", "m", "e",
       "t", "h" >>

ReasonHarassment ==
    << "E", "x", "t", "r", "e", "m", "e", " ", "h", "a", "r", "a", "s",
       "s", "m", "e", "n", "t", ":", " ", "k", "y", "s" >>

ReasonCritical ==
    << "C", "R", "I", "T", "I", "C", "A", "L", ":", " ", "C", "h", "i",
       "l", "d", " ", "e", "x", "p", "l", "o", "i", "t", "a", "t", "i",
       "o", "n", " ", "m", "a", "t", "e", "r", "i", "a", "l", " ", "(",
       "z", "e", "r", "o", " ", "t", "o", "l", "e", "r", "a", "n", "c",
       "e", ")" >>

\* check_toxicity's reason; PercentText is f"{score:.0%}" for a score in percent
ReasonToxicity(score) ==
    LET Digit(d) == <<"0", "1", "2", "3", "4", "5", "6", "7", "8", "9">>[d + 1]
        PercentText(n) ==
            (IF n >= 100 THEN <<Digit(n \div 100)>> ELSE << >>)
            \o (IF n >= 10 THEN <<Digit((n \div 10) % 10)>> ELSE << >>)
            \o <<Digit(n % 10), "%">>
    IN  << "T", "o", "x", "i", "c", "i", "t", "y", " ", "d", "e", "t", "e",
           "c", "t", "e", "d", " ", "(", "c", "o", "n", "f", "i", "d", "e",
           "n", "c", "e", ":", " " >> \o PercentText(score) \o <<")">>

ReasonAI ==
    << "A", "I", " ", "d", "e", "t", "e", "c", "t", "e", "d", ":", " ",
       "T", "O", "S", " ", "v", "i", "o", "l", "a", "t", "i", "o", "n" >>

ReasonAICritical ==
    << "A", "I", " ", "C", "R", "I", "T", "I", "C", "A", "L", ":", " ",
       "S", "e", "v", "e", "r", "e", " ", "T", "O", "S", " ", "v", "i",
       "o", "l", "a", "t", "i", "o", "n" >>

NoViolation == [violation |-> FALSE, reason |-> << >>, severity |-> "low"]

\* strip_mentions: every @handle becomes a blank
strip_mentions(text) ==
    [i \in DOMAIN text |-> IF IsMention(text[i]) THEN W("") ELSE text[i]]

\* check_patterns: whitelist, zero-tolerance keywords searched in text_lower,
\* then the banned keywords found in text_no_mentions, in the order their
\* matches end
check_patterns(text) ==
    LET text_lower == LowerText(text)
        low == strip_mentions(text_lower)
        matches == {m \in (0..Len(low)) \X BannedKeywords :
                      /\ m[1] >= Len(m[2])
                      /\ \A i \in 1..Len(m[2]) :
                            low[m[1] - Len(m[2]) + i].word = m[2][i]
                      /\ is_contextual_violation(low, m[2])}
        first == CHOOSE m \in matches : \A o \in matches : m[1] <= o[1]
        critical == \/ HasAnyPhrase(text_lower, CriticalKeywords)
                    \/ \E i \in DOMAIN text_lower, k \in CriticalInHandle :
                          Contains(text_lower[i].at, k)
    IN  IF text = << >> \/ HasAnyPhrase(text_lower, WhitelistPhrases) THEN NoViolation
        ELSE IF critical
        THEN [violation |-> TRUE, reason |-> ReasonCritical, severity |-> "critical"]
        ELSE IF matches = {} THEN NoViolation
        ELSE IF first[2] = <<"kys">>
        THEN [violation |-> TRUE, reason |-> ReasonHarassment, severity |-> "high"]
        ELSE [violation |-> TRUE, reason |-> ReasonProhibited, severity |-> "medium"]

\* the confidence, in percent, from which check_toxicity reports a toxic label
ToxicThreshold == 80

\* check_toxicity: tox is the local classifier: not loaded ("unavailable"),
\* raising when called ("raises"), or answering a label and a score in percent
check_toxicity(tox) ==
    IF tox.status = "ok" /\ tox.label = "toxic" /\ tox.score >= ToxicThreshold
    THEN [violation |-> TRUE, reason |-> ReasonToxicity(tox.score), severity |-> "high"]
    ELSE NoViolation

\* analyze_with_ai: the parsed analysis, or None (status "none") when the layer
\* is disabled, the request fails or times out, the status is not 200, the
\* content is not JSON or a required field is missing
NoAnalysis ==
    [status |-> "none", verdict |-> "", severity |-> "", confidence |-> 0,
     numeric |-> TRUE]

\* analyze_with_ai answering None whatever the remote classifier said
analyze_with_ai_AlwaysNone(remote) == NoAnalysis

analyze_with_ai(remote) ==
    IF remote.status = "ok" THEN remote ELSE NoAnalysis

\* the confidence, in percent, from which check_message accepts a remote verdict
AiHighThreshold == 70
AiMediumThreshold == 75
AiLowThreshold == 80

\* layer 3 of check_message on the result of analyze_with_ai; a confidence that
\* is not a number raises in the comparison or in the formatting of the log line
check_remote(remote) ==
    LET ai == analyze_with_ai(remote)
        Verdict(reason, severity) ==
            [violation |-> TRUE, reason |-> reason, severity |-> severity,
             raised |-> FALSE]
        Safe(raised) ==
            [violation |-> FALSE, reason |-> << >>, severity |-> "low",
             raised |-> raised]
    IN  IF ai.status = "none" \/ ai.verdict # "VIOLATION" THEN Safe(FALSE)
        ELSE IF ~ai.numeric THEN Safe(TRUE)
        ELSE IF ai.severity = "critical" THEN Verdict(ReasonAICritical, "critical")
        ELSE IF ai.severity = "high" /\ ai.confidence >= AiHighThreshold
        THEN Verdict(ReasonAI, "high")
        ELSE IF ai.severity = "medium" /\ ai.confidence >= AiMediumThreshold
        THEN Verdict(ReasonAI, "medium")
        ELSE IF ai.severity = "low" /\ ai.confidence >= AiLowThreshold
        THEN Verdict(ReasonAI, "low")
        ELSE Safe(FALSE)

\* the layers of check_message in the order of its statements, toxicity first
LayerOrderToxicityFirst == <<"toxicity", "pattern", "remote">>

\* the layers of check_message in the order of its statements
LayerOrder == <<"pattern", "toxicity", "remote">>

\* check_message: (should_remove, reason, severity, is_vouch), with the layers
\* it consulted and whether it raised instead of returning. The remote layer is
\* consulted only when it is enabled
RECURSIVE RunLayers(_, _, _, _, _)
RunLayers(order, text, tox, remote, consulted) ==
    LET Decision(rm, reason, severity, layers, raised) ==
            [should_remove |-> rm, reason |-> reason, severity |-> severity,
             is_vouch |-> is_vouch(text), layers |-> layers, raised |-> raised]
        Result(v) ==
            [violation |-> v.violation, reason |-> v.reason,
             severity |-> v.severity, raised |-> FALSE]
        RunLayer(layer) ==
            IF layer = "pattern" THEN Result(check_patterns(text))
            ELSE IF layer = "toxicity" THEN Result(check_toxicity(tox))
            ELSE check_remote(remote)
    IN  IF order = << >> THEN Decision(FALSE, << >>, "low", consulted, FALSE)
        ELSE IF Head(order) = "remote" /\ remote.status = "disabled"
        THEN RunLayers(Tail(order), text, tox, remote, consulted)
        ELSE LET res == RunLayer(Head(order))
                 seen == Append(consulted, Head(order))
             IN  IF res.raised THEN Decision(FALSE, << >>, "", seen, TRUE)
                 ELSE IF res.violation
                 THEN Decision(TRUE, res.reason, res.severity, seen, FALSE)
                 ELSE RunLayers(Tail(order), text, tox, remote, seen)

check_message(text, tox, remote) == RunLayers(LayerOrder, text, tox, remote, << >>)

NoDecision ==
    [should_remove |-> FALSE, reason |-> << >>, severity |-> "", is_vouch |-> FALSE,
     layers |-> << >>, raised |-> FALSE]

SANITIZE_REASON_KEYWORDS ==
    { <<"p", "r", "o", "h", "i", "b", "i", "t", "e", "d">>,
      <<"i", "l", "l", "e", "g", "a", "l">>,
      <<"s", "c", "a", "m">>,
      <<"s", "u", "s", "p", "i", "c", "i", "o", "u", "s">>,
      <<"t", "o", "x", "i", "c", "i", "t", "y">>,
      <<"c", "r", "i", "t", "i", "c", "a", "l">>,
      <<"a", "i", " ">> }

\* _should_sanitize_reason
should_sanitize_reason(reason) ==
    /\ reason # << >>
    /\ \E keyword \in SANITIZE_REASON_KEYWORDS : Contains(Lower(reason), keyword)

\* _collect_target_usernames: the mentions other than the author, the first of
\* each lower-cased handle
collect_target_usernames(text, from_username) ==
    LET mentions == extract_mentions(text)
        from_norm == Lower(LStripAt(IF from_username = NoneStr THEN << >>
                                    ELSE from_username))
        Fresh(i) == /\ Lower(mentions[i]) # from_norm
                    /\ \A j \in 1..(i - 1) : Lower(mentions[j]) # Lower(mentions[i])
        idx == {i \in DOMAIN mentions : Fresh(i)}
        RECURSIVE Pick(_)
        Pick(n) == IF n = 0 THEN << >>
                   ELSE IF n \in idx THEN Append(Pick(n - 1), mentions[n])
                   ELSE Pick(n - 1)
    IN  Pick(Len(mentions))

\* config.py
MESSAGE_RATE_LIMIT == 5
RATE_LIMIT_WINDOW == 10
MAX_STRIKES == 3
STRIKE_RESET_HOURS == 24
\* _MESSAGE_DEDUP_WINDOW of handlers/messages.py
MESSAGE_DEDUP_WINDOW == 300

LINK_RATE_LIMIT == 3
LINK_RATE_WINDOW == 30

\* extract_urls: the tokens of the text that are URLs
extract_urls(text) ==
    LET IsUrl(tok) == tok.word \in {"https://t.me/x", "http://bit.ly/y"}
    IN  SelectSeq(text, IsUrl)

\* a tracking that forgets no message
track_user_activity_NoWindow(tracker, links, t, urls) ==
    [ is_violation |-> Len(tracker) + 1 > MESSAGE_RATE_LIMIT,
      reason |-> IF Len(tracker) + 1 > MESSAGE_RATE_LIMIT THEN "Message flooding"
                 ELSE "",
      tracker |-> Append(tracker, t),
      links |-> links ]

\* track_user_activity: [is_violation, reason, tracker, links], tracker and
\* links being the times of the messages and of the links of the user inside
\* their windows; the reason stands for the text that starts with it
track_user_activity(tracker, links, t, urls) ==
    LET RecentMessage(ts) == t - ts < RATE_LIMIT_WINDOW
        RecentLink(ts) == t - ts < LINK_RATE_WINDOW
        kept == Append(SelectSeq(tracker, RecentMessage), t)
        keptLinks == SelectSeq(links, RecentLink)
        allLinks == keptLinks \o [i \in 1..Len(urls) |-> t]
    IN  IF Len(kept) > MESSAGE_RATE_LIMIT
        THEN [is_violation |-> TRUE, reason |-> "Message flooding",
              tracker |-> kept, links |-> keptLinks]
        ELSE IF Len(allLinks) > LINK_RATE_LIMIT
        THEN [is_violation |-> TRUE, reason |-> "Link spam",
              tracker |-> kept, links |-> allLinks]
        ELSE [is_violation |-> FALSE, reason |-> "",
              tracker |-> kept, links |-> allLinks]

NoStrikes == [strikes |-> 0, last_violation |-> Null, violations |-> << >>]

\* a reset that does not wait for the reset window
reset_if_needed_AtOnce(data, t) ==
    IF data.last_violation # Null /\ data.strikes > 0
    THEN [data EXCEPT !.strikes = 0, !.violations = << >>]
    ELSE data

\* reset_if_needed
reset_if_needed(data, t) ==
    IF /\ data.last_violation # Null /\ data.strikes > 0
       /\ t - data.last_violation > STRIKE_RESET_HOURS * 3600
    THEN [data EXCEPT !.strikes = 0, !.violations = << >>]
    ELSE data

\* a recording that never resets the count
record_violation_NoReset(data, t, reason, severity) ==
    [ strikes |-> data.strikes + 1,
      last_violation |-> t,
      violations |-> Append(data.violations,
                            [reason |-> reason, severity |-> severity,
                             timestamp |-> t]) ]

\* record_violation: the record of the user after the call
record_violation(data, t, reason, severity) ==
    LET d == reset_if_needed(data, t)
    IN  [ strikes |-> d.strikes + 1,
          last_violation |-> t,
          violations |-> Append(d.violations,
                                [reason |-> reason, severity |-> severity,
                                 timestamp |-> t]) ]

\* str.strip("@")
RECURSIVE RStripAt(_)
RStripAt(s) ==
    IF Len(s) > 0 /\ s[Len(s)] = "@" THEN RStripAt(SubSeq(s, 1, Len(s) - 1)) ELSE s

\* 5 * 60: the seconds a user has to retry a vouch
VOUCH_RETRY_WINDOW_SECONDS == 300

\* the row of table vouch_retry_attempts with the given unique key
RetryRows(rows, user_id, chat_id, target_norm) ==
    {r \in rows : /\ r.user_id = user_id
                  /\ r.chat_id = chat_id
                  /\ r.target_username = target_norm}

\* a tracking that counts the attempts of a user in a chat, whoever the target
track_vouch_retry_attempt_AnyTarget(rows, user_id, chat_id, target_username, t) ==
    LET old == {r \in rows : r.user_id = user_id /\ r.chat_id = chat_id}
        fresh == \A r \in old : t - r.last_attempt_time > VOUCH_RETRY_WINDOW_SECONDS
        count == IF old = {} \/ fresh THEN 1
                 ELSE 1 + (CHOOSE r \in old : TRUE).attempt_count
    IN  [ count |-> count,
          rows |-> (rows \ old)
                     \cup {[user_id |-> user_id, chat_id |-> chat_id,
                            target_username |->
                                RStripAt(LStripAt(Lower(target_username))),
                            attempt_count |-> count, last_attempt_time |-> t]} ]

\* a tracking that never starts again at 1
track_vouch_retry_attempt_NoWindow(rows, user_id, chat_id, target_username, t) ==
    LET target_norm == RStripAt(LStripAt(Lower(target_username)))
        old == RetryRows(rows, user_id, chat_id, target_norm)
        count == IF old = {} THEN 1 ELSE 1 + (CHOOSE r \in old : TRUE).attempt_count
    IN  [ count |-> count,
          rows |-> (rows \ old)
                     \cup {[user_id |-> user_id, chat_id |-> chat_id,
                            target_username |-> target_norm,
                            attempt_count |-> count, last_attempt_time |-> t]} ]

\* track_vouch_retry_attempt: the count returned and the table after the call
track_vouch_retry_attempt(rows, user_id, chat_id, target_username, t) ==
    LET target_norm == RStripAt(LStripAt(Lower(target_username)))
        existing_entry == RetryRows(rows, user_id, chat_id, target_norm)
        prev == CHOOSE r \in existing_entry : TRUE
        attempt_count ==
            IF existing_entry = {} THEN 1
            ELSE IF t - prev.last_attempt_time > VOUCH_RETRY_WINDOW_SECONDS THEN 1
            ELSE prev.attempt_count + 1
    IN  [ count |-> attempt_count,
          rows |-> (rows \ existing_entry)
                     \cup {[user_id |-> user_id, chat_id |-> chat_id,
                            target_username |-> target_norm,
                            attempt_count |-> attempt_count,
                            last_attempt_time |-> t]} ]

\* a clearing that empties the table
clear_vouch_retry_attempts_All(rows, user_id, chat_id, target_username) ==
    {r \in rows : FALSE}

\* clear_vouch_retry_attempts: the table after the call
clear_vouch_retry_attempts(rows, user_id, chat_id, target_username) ==
    rows \ RetryRows(rows, user_id, chat_id, Lower(LStripAt(target_username)))

\* an update that stores the vouches found by the last scan as the total
update_sync_state_Overwrite(rows, chat_id, last_message_id, vouches_found, t) ==
    [ ret |-> TRUE,
      rows |-> {r \in rows : r.chat_id # chat_id}
                 \cup {[chat_id |-> chat_id,
                        last_scanned_message_id |-> last_message_id,
                        last_sync_time |-> t,
                        vouches_found_total |-> vouches_found]} ]

\* update_sync_state: the value returned and the table after the call;
\* chat_id is the primary key of the table
update_sync_state(rows, chat_id, last_message_id, vouches_found, t) ==
    LET result == {r \in rows : r.chat_id = chat_id}
        current_total ==
            (IF result = {} THEN 0
             ELSE (CHOOSE r \in result : TRUE).vouches_found_total) + vouches_found
    IN  [ ret |-> TRUE,
          rows |-> (rows \ result)
                     \cup {[chat_id |-> chat_id,
                            last_scanned_message_id |-> last_message_id,
                            last_sync_time |-> t,
                            vouches_found_total |-> current_total]} ]

----------------------------------------------------------------------------
(* The prime engine: moderation_prime.py *)

\* config_prime.py
MAX_MESSAGES_PER_WINDOW == 3
MESSAGE_WINDOW_SECONDS == 5
\* _CLEANUP_INTERVAL
CLEANUP_INTERVAL == 100

\* layer3_velocity_check: [ret, velocity_tracker, cleanup_counter] after the
\* call. user_messages is the list object of the user taken before the
\* cleanup; the cleanup, at every CLEANUP_INTERVAL-th call, binds new lists, so
\* the timestamp appended afterwards reaches the tracker only when no cleanup
\* ran, and the count is the length of the list as it was, plus one
layer3_velocity_check(tracker, counter, user_id, t) ==
    LET Recent(ts) == ts > t - MESSAGE_WINDOW_SECONDS
        user_messages == Append(tracker[user_id], t)
        cleanup == counter + 1 >= CLEANUP_INTERVAL
    IN  [ ret |-> Len(user_messages) > MAX_MESSAGES_PER_WINDOW,
          velocity_tracker |->
              IF cleanup
              THEN [uid \in DOMAIN tracker |-> SelectSeq(tracker[uid], Recent)]
              ELSE [tracker EXCEPT ![user_id] = user_messages],
          cleanup_counter |-> IF cleanup THEN 0 ELSE counter + 1 ]

----------------------------------------------------------------------------
(* Ledger calls *)

\* the arguments of a store_vouch call made directly on the ledger
ApiStoreArgs(Us, Hs, Xs, Cs, Ms) ==
    { [ from_user_id |-> u,
        from_username |-> UsernameOf(u),
        from_display_name |-> FirstNameOf(u),
        to_user_id |-> Null,
        to_username |-> h,
        to_display_name |-> NoneStr,
        polarity |-> "pos",
        original_text |-> x,
        canonical_text |-> format_canonical_vouch(
            [from_username |-> <<"@">> \o UsernameOf(u), to_username |-> <<"@">> \o h,
             polarity |-> "pos", excerpt |-> x, watchers |-> << >>]),
        chat_id |-> c,
        message_id |-> m,
        is_sanitized |-> FALSE ] :
      u \in Us, h \in Hs, x \in Xs, c \in Cs, m \in Ms }

NoCall == [op |-> "none", args |-> << >>, ok |-> FALSE, n |-> 0, reason |-> ""]

----------------------------------------------------------------------------
(* The ledger called directly: store, delete, resolve_username *)

InitLedger ==
    /\ vouches = << >>
    /\ nextRowId = 1
    /\ username_history = << >>
    /\ storage = "up"
    /\ vouch_retry_attempts = {}
    /\ sync_state = {}
    /\ now = 0
    /\ last = NoCall

InitBot ==
    /\ handlers = << >>
    /\ chatLog = << >>
    /\ nextMsgId = 100
    /\ storeCalls = << >>
    /\ processed = {}
    /\ message_tracker = [u \in UserIds |-> << >>]
    /\ link_tracker = [u \in UserIds |-> << >>]
    /\ user_strikes = [u \in UserIds |-> NoStrikes]
    /\ velocity_tracker = [u \in UserIds |-> << >>]
    /\ cleanup_counter = 0
    /\ restricted = {}

Init == InitLedger /\ InitBot

StoreVouchUpTo(Args, maxRows) ==
    \E a \in Args :
        LET res == store_vouch(vouches, nextRowId, now, a)
        IN  /\ storage = "up"
            /\ nextRowId <= maxRows
            /\ vouches' = res.vouches
            /\ nextRowId' = IF res.ret THEN nextRowId + 1 ELSE nextRowId
            /\ last' = [op |-> "store", args |-> a, ok |-> res.ret, n |-> 0,
                        reason |-> ""]
            /\ UNCHANGED <<username_history, storage, now,
                           vouch_retry_attempts, sync_state, botVars>>

StoreVouch(Args) == StoreVouchUpTo(Args, MaxRows)

DeleteVouch(Ms, Cs, Us) ==
    \E m \in Ms, c \in Cs, u \in Us, adm \in BOOLEAN :
        LET res == delete_vouch_by_message(vouches, m, c, u, adm)
        IN  /\ storage = "up"
            /\ vouches' = res.vouches
            /\ last' = [op |-> "delete",
                        args |-> [message_id |-> m, chat_id |-> c, user_id |-> u,
                                  is_admin |-> adm],
                        ok |-> res.ok, n |-> 0, reason |-> res.reason]
            /\ UNCHANGED <<nextRowId, username_history, storage, now,
                           vouch_retry_attempts, sync_state, botVars>>

ResolveUsername(Cs, Hs, Us) ==
    \E c \in Cs, h \in Hs, u \in Us :
        LET res == update_vouches_with_resolved_user_id(
                       vouches, username_history, now, c, h, u)
        IN  /\ storage = "up"
            /\ Len(username_history) < MaxHist
            /\ vouches' = res.vouches
            /\ username_history' = res.username_history
            /\ last' = [op |-> "resolve",
                        args |-> [chat_id |-> c, username |-> h, user_id |-> u],
                        ok |-> FALSE, n |-> res.ret, reason |-> ""]
            /\ UNCHANGED <<nextRowId, storage, now,
                           vouch_retry_attempts, sync_state, botVars>>

\* the storage starts raising on every access (file locked, disk full), and
\* later answers again
\* a call of track_vouch_retry_attempt; existing is the row it found, after
\* is the call made before it
TrackRetry(Us, Cs, Ts) ==
    \E u \in Us, c \in Cs, target \in Ts :
        LET res == track_vouch_retry_attempt(vouch_retry_attempts, u, c, target, now)
        IN  /\ storage = "up"
            /\ res.count <= MaxAttempts
            /\ vouch_retry_attempts' = res.rows
            /\ last' = [op |-> "track_vouch_retry_attempt",
                        args |-> [user_id |-> u, chat_id |-> c,
                                  target_username |-> target],
                        ok |-> TRUE, n |-> res.count, reason |-> "",
                        existing |-> vouch_retry_attempts \ res.rows,
                        after |-> [op |-> last.op, args |-> last.args,
                                   n |-> last.n]]
            /\ UNCHANGED <<vouches, nextRowId, username_history, storage,
                           sync_state, now, botVars>>

\* a call of clear_vouch_retry_attempts; n is the number of rows it deleted
ClearRetry(Us, Cs, Ts) ==
    \E u \in Us, c \in Cs, target \in Ts :
        LET rows == clear_vouch_retry_attempts(vouch_retry_attempts, u, c, target)
        IN  /\ storage = "up"
            /\ vouch_retry_attempts' = rows
            /\ last' = [op |-> "clear_vouch_retry_attempts",
                        args |-> [user_id |-> u, chat_id |-> c,
                                  target_username |-> target],
                        ok |-> TRUE,
                        n |-> Cardinality(vouch_retry_attempts \ rows),
                        reason |-> ""]
            /\ UNCHANGED <<vouches, nextRowId, username_history, storage,
                           sync_state, now, botVars>>

\* the clock advances between two ledger calls
Elapse(Ds, span) ==
    \E d \in Ds :
        /\ now + d <= span
        /\ now' = now + d
        /\ UNCHANGED <<vouches, nextRowId, username_history, storage,
                       vouch_retry_attempts, sync_state, last, botVars>>

\* a call of get_top_vouchers
TopVouchers(Cs, Ds, Ls, Ps) ==
    \E c \in Cs, days \in Ds, limit \in Ls, polarity \in Ps :
        /\ storage = "up"
        /\ last' = [op |-> "get_top_vouchers",
                    args |-> [chat_id |-> c, days |-> days, limit |-> limit,
                              polarity |-> polarity],
                    ok |-> TRUE, n |-> 0, reason |-> "",
                    ret |-> get_top_vouchers(vouches, c, days, limit, polarity, now)]
        /\ UNCHANGED <<ledgerVars, now, botVars>>

\* a call of track_user_activity
TrackActivity(Us, Xs) ==
    \E u \in Us, x \in Xs :
        LET act == track_user_activity(message_tracker[u], link_tracker[u], now,
                                       extract_urls(x))
        IN  /\ Len(act.tracker) <= FloodMsgs
            /\ message_tracker' = [message_tracker EXCEPT ![u] = act.tracker]
            /\ link_tracker' = [link_tracker EXCEPT ![u] = act.links]
            /\ last' = [op |-> "track_user_activity",
                        args |-> [user_id |-> u, text |-> x],
                        ok |-> act.is_violation, n |-> Len(act.tracker),
                        reason |-> act.reason]
            /\ UNCHANGED <<ledgerVars, now, handlers, chatLog, nextMsgId, storeCalls,
                           processed, primeVars, restricted, user_strikes>>

\* a call of update_sync_state
UpdateSyncState(Cs, Ms, Ns) ==
    \E c \in Cs, m \in Ms, found \in Ns :
        LET res == update_sync_state(sync_state, c, m, found, now)
        IN  /\ storage = "up"
            /\ \A r \in res.rows : r.vouches_found_total <= MaxFound
            /\ sync_state' = res.rows
            /\ last' = [op |-> "update_sync_state",
                        args |-> [chat_id |-> c, last_message_id |-> m,
                                  vouches_found |-> found],
                        ok |-> res.ret, n |-> 0, reason |-> ""]
            /\ UNCHANGED <<vouches, nextRowId, username_history, storage,
                           vouch_retry_attempts, now, botVars>>

\* a call of layer3_velocity_check for a message of user u
VelocityCheck(Us) ==
    \E u \in Us :
        LET res == layer3_velocity_check(velocity_tracker, cleanup_counter, u, now)
        IN  /\ Len(velocity_tracker[1]) + Len(velocity_tracker[2]) < MaxVelocityCalls
            /\ velocity_tracker' = res.velocity_tracker
            /\ cleanup_counter' = res.cleanup_counter
            /\ last' = [op |-> "layer3_velocity_check",
                        args |-> [user_id |-> u, t |-> now],
                        ok |-> res.ret, n |-> 0, reason |-> ""]
            /\ UNCHANGED <<ledgerVars, now, handlers, chatLog, nextMsgId, storeCalls,
                           processed, message_tracker, link_tracker, user_strikes,
                           restricted>>

StorageFails ==
    /\ storage = "up"
    /\ storage' = "down"
    /\ UNCHANGED <<vouches, nextRowId, username_history, now,
                   vouch_retry_attempts, sync_state, last, botVars>>

StorageRecovers ==
    /\ storage = "down"
    /\ storage' = "up"
    /\ UNCHANGED <<vouches, nextRowId, username_history, now,
                   vouch_retry_attempts, sync_state, last, botVars>>

\* str(e) of the exception the storage raises
StorageErrorText == "database is locked"

\* a message shown to a user: a fixed notice, the user names formatted into it
\* and the exception text formatted into it, "" when there is none
UserMessage(notice, names, error) ==
    [notice |-> notice, names |-> names, error |-> error]

\* every except clause answering the count 0
OnStorageErrorAlwaysZero(op) == [n |-> 0]

\* the `except Exception` clause of each ledger operation: what the operation
\* returns when the storage raises
OnStorageError(op) ==
    IF op \in {"search_vouches", "get_top_vouchers", "get_prior_vouchers_for_target",
               "get_recent_vouches"}
    THEN [rows |-> << >>]
    ELSE IF op \in {"store_vouch", "check_vouch_duplicate_24h",
                    "update_vouch_message_id", "vouch_exists_by_message_id"}
    THEN [ok |-> FALSE]
    ELSE IF op \in {"update_vouches_with_resolved_user_id", "count_user_vouches"}
    THEN [n |-> 0]
    ELSE [ok |-> FALSE,
          message |-> UserMessage("Error deleting vouch: ", << >>, StorageErrorText)]

LedgerOps ==
    {"search_vouches", "get_top_vouchers", "get_prior_vouchers_for_target",
     "get_recent_vouches", "store_vouch", "check_vouch_duplicate_24h",
     "update_vouch_message_id", "vouch_exists_by_message_id",
     "update_vouches_with_resolved_user_id", "count_user_vouches",
     "delete_vouch_by_message"}

\* a ledger operation called while the storage raises: nothing is committed and
\* the except clause returns; one such call per behaviour
LedgerCallFails ==
    \E op \in LedgerOps :
        /\ storage = "down"
        /\ last = NoCall
        /\ last' = [op |-> op, args |-> << >>, ok |-> FALSE, n |-> 0, reason |-> "",
                    ret |-> OnStorageError(op)]
        /\ UNCHANGED <<ledgerVars, now, botVars>>

\* store, delete and resolve_username in any order
SpecLedger ==
    Init /\ [][\/ StoreVouch(ApiStoreArgs(UserIds, {Bob, BobCaps}, {TextVouchBob, TextRepBob},
                                          {10}, MessageIds))
               \/ DeleteVouch(MessageIds, {10}, UserIds)
               \/ ResolveUsername({10, Null}, {Bob, AtBob}, {2})]_vars

\* store and delete, over two chats and two authors
SpecDelete ==
    Init /\ [][\/ StoreVouch(ApiStoreArgs(UserIds, {Bob, Al}, {TextVouchBob}, ChatIds,
                                          MessageIds))
               \/ DeleteVouch(MessageIds, ChatIds, UserIds)]_vars

\* store and resolve_username, over two chats, two names and two user ids
SpecResolve ==
    Init /\ [][\/ StoreVouch(ApiStoreArgs({1}, {Bob, BobCaps, Al}, {TextVouchBob}, ChatIds,
                                          {100}))
               \/ ResolveUsername(ChatIds \cup {Null}, {Bob, AtBob, Al, << >>}, UserIds)]_vars

\* vouches for two names in two chats, and resolve_username for one chat and
\* without a chat filter, for both names and the ids 0, 1 and 2
SpecBackfill ==
    Init /\ [][\/ StoreVouch(ApiStoreArgs({1}, {Bob, Al}, {TextVouchBob}, ChatIds,
                                          {100}))
               \/ ResolveUsername({10, Null}, {AtBob, Al}, {0, 1, 2})]_vars

----------------------------------------------------------------------------
(* The vouch handlers: modbot/services/vouches.py *)

\* what handle_clean_vouch computes before its first await: the targets, and an
\* entry for each target that is not a 24 h duplicate
clean_vouch_plan(vs, t, msg) ==
    LET from_username == UsernameOf(msg.from_user_id)
        vinfo == extract_vouch_info(msg.text, from_username)
        targets == collect_target_usernames(msg.text, from_username)
        Fresh(target) ==
            ~check_vouch_duplicate_24h(vs, t, msg.from_user_id, target, vinfo.polarity)
        valid == SelectSeq(targets, Fresh)
        Entry(target) ==
            [ target |-> target,
              canonical_text |-> format_canonical_vouch(
                  [ from_username |-> vinfo.from_username,
                    to_username |-> <<"@">> \o target,
                    polarity |-> vinfo.polarity,
                    excerpt |-> vinfo.excerpt,
                    watchers |-> IF vinfo.polarity = "neg"
                                 THEN format_prior_watchers(vs, target)
                                 ELSE << >> ]) ]
    IN  [ returns |-> ~vinfo.ok \/ targets = << >>,
          polarity |-> vinfo.polarity,
          targets |-> targets,
          entries |-> [i \in DOMAIN valid |-> Entry(valid[i])] ]

\* the longest answer rewrite_vouch_with_ai accepts, and the shortest
MaxRewriteLen == 500
MinRewriteLen == 3

\* rewrite_vouch_with_ai: answer is what the remote model wrote, << >> when
\* every attempt failed; None is << >>
rewrite_vouch_with_ai(original_text, answer) ==
    IF \/ answer = << >>
       \/ answer = original_text
       \/ TextLen(answer) < MinRewriteLen
       \/ TextLen(answer) > MaxRewriteLen
    THEN << >>
    ELSE answer

\* max_retries of rewrite_vouch_with_ai
max_retries == 2

\* how an attempt of rewrite_vouch_with_ai can fail: the request times out, the
\* status is not 200, or anything else raises (the body is no JSON, a field is
\* missing)
RewriteFailures == {"timeout", "non200", "error"}

\* the loop of rewrite_vouch_with_ai retrying after every failed attempt
rewrite_after_attempt_AlwaysRetry(attempt, failed) ==
    IF failed THEN "backoff" ELSE "return"

\* the loop of rewrite_vouch_with_ai after attempt number `attempt` (from 0):
\* the answer is examined and returned, or the attempt failed, and then the
\* loop sleeps and continues unless the attempt was the last one
rewrite_after_attempt(attempt, failed) ==
    IF ~failed THEN "return"
    ELSE IF attempt < max_retries - 1 THEN "backoff"
    ELSE "none"

\* what handle_dirty_vouch computes between the rewrite and its first delete
dirty_vouch_plan(vs, t, msg, vouch_content) ==
    LET name == UsernameOf(msg.from_user_id)
        username == IF Truthy(name) THEN <<"@">> \o name
                    ELSE FirstNameOf(msg.from_user_id)
        vinfo == extract_vouch_info(msg.text, name)
        collected == collect_target_usernames(msg.text, name)
        targets == IF collected # << >> THEN collected
                   ELSE << IF Truthy(name) THEN name ELSE << >> >>
        Fresh(target) ==
            ~check_vouch_duplicate_24h(vs, t, msg.from_user_id, target, vinfo.polarity)
        valid == SelectSeq(targets, Fresh)
        Entry(target) ==
            [ target |-> target,
              canonical_text |-> format_canonical_vouch(
                  [ from_username |-> username,
                    to_username |-> <<"@">> \o target,
                    polarity |-> vinfo.polarity,
                    excerpt |-> vouch_content,
                    watchers |-> IF vinfo.polarity = "neg"
                                 THEN format_prior_watchers(vs, target)
                                 ELSE << >> ]) ]
    IN  [ polarity |-> vinfo.polarity,
          targets |-> targets,
          entries |-> [i \in DOMAIN valid |-> Entry(valid[i])] ]

\* the arguments of the store_vouch call a handler makes for one entry
HandlerStoreArgs(msg, entry, polarity, sent, is_sanitized) ==
    [ from_user_id |-> msg.from_user_id,
      from_username |-> UsernameOf(msg.from_user_id),
      from_display_name |-> FirstNameOf(msg.from_user_id),
      to_user_id |-> Null,
      to_username |-> entry.target,
      to_display_name |-> NoneStr,
      polarity |-> polarity,
      original_text |-> msg.text,
      canonical_text |-> entry.canonical_text,
      chat_id |-> msg.chat_id,
      message_id |-> sent,
      is_sanitized |-> is_sanitized ]

\* the loop `for target, canonical_text in target_entries: store_vouch(...)`:
\* the ledger, the row counter and the calls made, after the loop
RECURSIVE StoreAll(_, _, _, _, _)
StoreAll(vs, id, t, argsSeq, calls) ==
    IF argsSeq = << >> THEN [vouches |-> vs, nextRowId |-> id, calls |-> calls]
    ELSE LET res == store_vouch(vs, id, t, Head(argsSeq))
         IN  StoreAll(res.vouches, IF res.ret THEN id + 1 ELSE id, t, Tail(argsSeq),
                      Append(calls, [args |-> Head(argsSeq), ret |-> res.ret]))

\* the WHERE clause of update_vouch_message_id without `message_id = 0`
PlaceholderRowAnyMessage(r, chat_id) == r.chat_id = chat_id

\* `WHERE chat_id = ? AND message_id = 0` of update_vouch_message_id
PlaceholderRow(r, chat_id) == r.chat_id = chat_id /\ r.message_id = 0

\* update_vouch_message_id: the newest row of the chat with message_id 0 gets
\* the message id
update_vouch_message_id(vs, chat_id, message_id) ==
    LET Placeholder(r) == PlaceholderRow(r, chat_id)
        found == OrderNewestFirst(SelectSeq(vs, Placeholder))
    IN  IF found = << >> THEN vs
        ELSE [i \in DOMAIN vs |->
                IF vs[i].id = Head(found).id
                THEN [vs[i] EXCEPT !.message_id = message_id]
                ELSE vs[i]]

----------------------------------------------------------------------------
(* handle_text_message and the handlers it awaits, one action per resumption *)

NewHandler(msg, pc) ==
    [ msg |-> msg, pc |-> pc, decision |-> NoDecision, path |-> "",
      polarity |-> "pos", targets |-> << >>, entries |-> << >>,
      content |-> << >>, deleted |-> "no", sent |-> Null, replies |-> << >> ]

\* the handler executions that have not returned or raised
InFlight == {h \in DOMAIN handlers : handlers[h].pc \notin {"done", "failed"}}

PostMessage(log, id, from_user_id, kind) ==
    Append(log, [id |-> id, from_user_id |-> from_user_id, kind |-> kind,
                 deleted |-> FALSE])

MarkDeleted(log, id) ==
    [i \in DOMAIN log |-> IF log[i].id = id THEN [log[i] EXCEPT !.deleted = TRUE]
                          ELSE log[i]]

IsDeleted(log, id) == \E i \in DOMAIN log : log[i].id = id /\ log[i].deleted

\* the author recorded in chatLog for a message the bot posts
BotUser == Null

\* the message of delete_vouch_by_message's (success, message)
DeleteMessage(vs, res, message_id, chat_id) ==
    LET Hit(r) == DeleteMatch(r, message_id, chat_id)
        row == Head(SelectSeq(vs, Hit))
    IN  IF res.reason = "not_found"
        THEN UserMessage("No vouch found with that message ID.", << >>, "")
        ELSE IF res.reason = "not_owner"
        THEN UserMessage("You can only delete your own vouches.", << >>, "")
        ELSE UserMessage("Vouch deleted: ",
                         << IF Truthy(row.from_username) THEN row.from_username
                            ELSE <<"U", "s", "e", "r">>,
                            row.to_username >>, "")

\* deletevouch_command, in reply to message m: delete_vouch_by_message, then on
\* success the replied message is deleted and a confirmation with the message
\* is sent, otherwise the message is the reply
DeleteVouchCommand(Ms, Cs, Us) ==
    \E m \in Ms, c \in Cs, u \in Us, sendOk \in BOOLEAN :
        LET res == delete_vouch_by_message(vouches, m, c, u, FALSE)
            message == IF storage = "down"
                       THEN OnStorageError("delete_vouch_by_message").message
                       ELSE DeleteMessage(vouches, res, m, c)
            success == storage = "up" /\ res.ok
            sent == success /\ sendOk
        IN  /\ vouches' = IF success THEN res.vouches ELSE vouches
            /\ chatLog' = IF sent
                          THEN PostMessage(MarkDeleted(chatLog, m), nextMsgId,
                                           BotUser, "ack")
                          ELSE IF success THEN MarkDeleted(chatLog, m) ELSE chatLog
            /\ nextMsgId' = IF sent THEN nextMsgId + 1 ELSE nextMsgId
            /\ last' = [op |-> "deletevouch_command",
                        args |-> [message_id |-> m, chat_id |-> c, user_id |-> u],
                        ok |-> success, n |-> 0, reason |-> "",
                        reply |-> IF success /\ ~sent THEN UserMessage("", << >>, "")
                                  ELSE message]
            /\ UNCHANGED <<nextRowId, username_history, storage, now,
                           vouch_retry_attempts, sync_state, handlers,
                           storeCalls, processed, primeVars, restricted, message_tracker, link_tracker,
                           user_strikes>>

\* what the reads of the handlers see: when the storage raises,
\* check_vouch_duplicate_24h answers False and get_prior_vouchers_for_target
\* answers [], as they do over an empty table
Readable == IF storage = "down" THEN << >> ELSE vouches

\* the cleaning of _processed_messages with every entry but those of this
\* very moment taken for old
prune_processed_NoWindow(entries, t) ==
    {e \in entries : ~(t - e.ts > 0)}

\* "Clean old entries": `if now - ts > _MESSAGE_DEDUP_WINDOW: pop`
prune_processed(entries, t) ==
    {e \in entries : ~(t - e.ts > MESSAGE_DEDUP_WINDOW)}

\* handle_text_message up to its first await, for an update carrying msg:
\* deduplication, username resolution, rate limiting, vouch-request test
Receive(msg) ==
    LET key == <<msg.chat_id, msg.message_id>>
        kept == prune_processed(processed, now)
        u == msg.from_user_id
        res == IF storage = "down"
               THEN [ret |-> 0, vouches |-> vouches,
                     username_history |-> username_history]
               ELSE update_vouches_with_resolved_user_id(
                        vouches, username_history, now, msg.chat_id, UsernameOf(u), u)
        act == track_user_activity(message_tracker[u], link_tracker[u], now,
                                   extract_urls(msg.text))
    IN  IF \E e \in kept : e.key = key
        THEN /\ processed' = kept
             /\ handlers' = Append(handlers, NewHandler(msg, "done"))
             /\ UNCHANGED <<vouches, username_history, message_tracker, link_tracker>>
        ELSE /\ processed' = kept \cup {[key |-> key, ts |-> now]}
             /\ vouches' = res.vouches
             /\ username_history' = res.username_history
             /\ message_tracker' = [message_tracker EXCEPT ![u] = act.tracker]
             /\ link_tracker' = [link_tracker EXCEPT ![u] = act.links]
             /\ handlers' = Append(handlers, NewHandler(msg,
                    IF act.is_violation THEN "flood"
                    ELSE IF is_vouch_request(msg.text) THEN "poll"
                    ELSE "analyze"))

\* a user posts a message and the bot receives it, for at most maxMsgs
\* messages; at most maxInFlight handler executions run at a time (1 is
\* Application's default: the next update is processed when the handler of the
\* current one has returned)
DeliverUpTo(Us, Cs, Xs, maxInFlight, maxMsgs) ==
    \E u \in Us, c \in Cs, x \in Xs :
        /\ Len(handlers) < maxMsgs
        /\ Cardinality(InFlight) < maxInFlight
        /\ chatLog' = PostMessage(chatLog, nextMsgId, u, "user")
        /\ nextMsgId' = nextMsgId + 1
        /\ Receive([chat_id |-> c, message_id |-> nextMsgId, from_user_id |-> u,
                    text |-> x])
        /\ UNCHANGED <<nextRowId, storage, now, vouch_retry_attempts, sync_state,
                       last, storeCalls, user_strikes, primeVars, restricted>>

\* the update of a message received before reaches the bot once more (the
\* transport delivers an update again when it was not acknowledged), for at
\* most maxDeliveries deliveries in all
Redeliver(maxInFlight, maxDeliveries) ==
    \E h \in DOMAIN handlers :
        /\ Len(handlers) < maxDeliveries
        /\ Cardinality(InFlight) < maxInFlight
        /\ Receive(handlers[h].msg)
        /\ UNCHANGED <<nextRowId, storage, now, vouch_retry_attempts, sync_state,
                       last, chatLog, nextMsgId, storeCalls, user_strikes,
                       primeVars, restricted>>

Deliver(Us, Cs, Xs, maxInFlight) == DeliverUpTo(Us, Cs, Xs, maxInFlight, MaxMsgs)

\* flood branch: `await message.delete()`, then return
RemoveFlood ==
    \E h \in DOMAIN handlers, ok \in BOOLEAN :
        LET H == handlers[h]
        IN  /\ H.pc = "flood"
            /\ ok => ~IsDeleted(chatLog, H.msg.message_id)
            /\ chatLog' = IF ok THEN MarkDeleted(chatLog, H.msg.message_id) ELSE chatLog
            /\ handlers' = [handlers EXCEPT ![h] =
                   [H EXCEPT !.pc = "done", !.deleted = IF ok THEN "ok" ELSE "error"]]
            /\ UNCHANGED <<ledgerVars, now, last, nextMsgId, storeCalls, processed, primeVars, restricted,
                           message_tracker, link_tracker, user_strikes>>

\* _maybe_create_vouch_poll: `await message.chat.send_poll(...)`, then return
CreateVouchPoll ==
    \E h \in DOMAIN handlers, ok \in BOOLEAN :
        LET H == handlers[h]
        IN  /\ H.pc = "poll"
            /\ chatLog' = IF ok THEN PostMessage(chatLog, nextMsgId, BotUser, "poll")
                          ELSE chatLog
            /\ nextMsgId' = IF ok THEN nextMsgId + 1 ELSE nextMsgId
            /\ handlers' = [handlers EXCEPT ![h] = [H EXCEPT !.pc = "done"]]
            /\ UNCHANGED <<ledgerVars, now, last, storeCalls, processed, primeVars, restricted,
                           message_tracker, link_tracker, user_strikes>>

\* `decision = await analyze_message(...)` returns (or raises, and the handler
\* re-raises) and the handler runs to its
\* next await: the routing of handle_text_message, the early returns and the
\* duplicate checks of handle_clean_vouch, the reason test of handle_dirty_vouch
Analyze(Tox, Ai) ==
    \E h \in DOMAIN handlers, tox \in Tox, ai \in Ai :
        LET H == handlers[h]
            d == check_message(H.msg.text, tox, ai)
            plan == clean_vouch_plan(Readable, now, H.msg)
            clean == d.is_vouch /\ ~d.should_remove
            dirty == d.is_vouch /\ d.should_remove
            D == [H EXCEPT !.decision = d]
        IN  /\ H.pc = "analyze"
            /\ handlers' = [handlers EXCEPT ![h] =
                   IF d.raised THEN [D EXCEPT !.pc = "failed"]
                   ELSE IF clean \/ (dirty /\ ~should_sanitize_reason(d.reason))
                   THEN IF plan.returns
                        THEN [D EXCEPT !.path = "clean", !.pc = "done"]
                        ELSE [D EXCEPT !.path = "clean",
                                       !.polarity = plan.polarity,
                                       !.targets = plan.targets,
                                       !.entries = plan.entries,
                                       !.pc = IF plan.entries = << >>
                                              THEN "dup_delete" ELSE "delete"]
                   ELSE IF dirty THEN [D EXCEPT !.path = "dirty", !.pc = "rewrite"]
                   ELSE IF d.should_remove THEN [D EXCEPT !.pc = "violation"]
                   ELSE [D EXCEPT !.pc = "done"]]
            /\ UNCHANGED <<ledgerVars, now, last, chatLog, nextMsgId, storeCalls,
                           processed, primeVars, restricted, message_tracker, link_tracker, user_strikes>>

\* handle_dirty_vouch after `await rewrite_vouch_with_ai(...)` returned
\* rewritten: the content is the rewrite or sanitize_text(original_text);
\* targets, duplicate checks, entries
AfterRewrite(H, rewritten, filler) ==
    LET vouch_content == IF rewritten # << >> THEN rewritten
                         ELSE sanitize_text(H.msg.text, filler, FALSE)
        plan == dirty_vouch_plan(Readable, now, H.msg, vouch_content)
    IN  [H EXCEPT !.content = vouch_content,
                  !.polarity = plan.polarity,
                  !.targets = plan.targets,
                  !.entries = plan.entries,
                  !.pc = IF plan.entries = << >> THEN "dup_delete" ELSE "delete"]

\* handle_dirty_vouch: `await rewrite_vouch_with_ai(...)` as one step, answer
\* being what the call got from the remote model
Rewrite(Answers) ==
    \E h \in DOMAIN handlers, answer \in Answers, filler \in FillerChoices :
        LET H == handlers[h]
        IN  /\ H.pc = "rewrite"
            /\ handlers' = [handlers EXCEPT ![h] =
                   AfterRewrite(H, rewrite_vouch_with_ai(H.msg.text, answer), filler)]
            /\ UNCHANGED <<ledgerVars, now, last, chatLog, nextMsgId, storeCalls,
                           processed, primeVars, restricted, message_tracker, link_tracker, user_strikes>>

\* rewrite_vouch_with_ai, one attempt: `await client.post(...)` returns or
\* raises; the function returns, or goes to sleep before the next attempt.
\* With the remote model disabled the function returns before any attempt.
\* Fillers are the words random.choice may draw for sanitize_text
RewriteAttempt(Replies, Fillers) ==
    \E h \in DOMAIN handlers, reply \in Replies, filler \in Fillers :
        LET H == handlers[h]
            failed == reply.status \in RewriteFailures
            R == [H EXCEPT !.replies = Append(@, reply.status)]
        IN  /\ H.pc = "rewrite"
            /\ reply.status = "disabled" => H.replies = << >>
            /\ handlers' = [handlers EXCEPT ![h] =
                   IF reply.status = "disabled" THEN AfterRewrite(H, << >>, filler)
                   ELSE IF rewrite_after_attempt(Len(H.replies), failed) = "backoff"
                   THEN [R EXCEPT !.pc = "backoff"]
                   ELSE AfterRewrite(R, IF failed THEN << >>
                                        ELSE rewrite_vouch_with_ai(H.msg.text,
                                                                   reply.content),
                                     filler)]
            /\ UNCHANGED <<ledgerVars, now, last, chatLog, nextMsgId, storeCalls,
                           processed, primeVars, restricted, message_tracker, link_tracker, user_strikes>>

\* rewrite_vouch_with_ai: `await asyncio.sleep(0.5)` returns, the loop continues
RewriteBackoff ==
    \E h \in DOMAIN handlers :
        /\ handlers[h].pc = "backoff"
        /\ handlers' = [handlers EXCEPT ![h] = [@ EXCEPT !.pc = "rewrite"]]
        /\ UNCHANGED <<ledgerVars, now, last, chatLog, nextMsgId, storeCalls,
                       processed, primeVars, restricted, message_tracker, link_tracker, user_strikes>>

\* `await message.delete()` inside try/except, of handle_clean_vouch and
\* handle_dirty_vouch: the original message is deleted, or the call raised
DeleteOriginal ==
    \E h \in DOMAIN handlers, ok \in BOOLEAN :
        LET H == handlers[h]
        IN  /\ H.pc \in {"delete", "dup_delete"}
            /\ ok => ~IsDeleted(chatLog, H.msg.message_id)
            /\ chatLog' = IF ok THEN MarkDeleted(chatLog, H.msg.message_id) ELSE chatLog
            /\ handlers' = [handlers EXCEPT ![h] =
                   [H EXCEPT !.deleted = IF ok THEN "ok" ELSE "error",
                             !.pc = IF H.pc = "delete" THEN "send" ELSE "dup_ack"]]
            /\ UNCHANGED <<ledgerVars, now, last, nextMsgId, storeCalls, processed, primeVars, restricted,
                           message_tracker, link_tracker, user_strikes>>

\* `sent = await message.chat.send_message(...)`: on success the repost is in
\* the chat and the handler stores one row per entry under the repost's id
\* (handle_dirty_vouch first calls update_vouch_message_id); on failure
\* handle_clean_vouch raises and handle_dirty_vouch returns
SendRepost ==
    \E h \in DOMAIN handlers, ok \in BOOLEAN :
        LET H == handlers[h]
            sent == nextMsgId
            args == [i \in DOMAIN H.entries |->
                        HandlerStoreArgs(H.msg, H.entries[i], H.polarity, sent,
                                         H.path = "dirty")]
            before == IF H.path = "dirty"
                      THEN update_vouch_message_id(vouches, H.msg.chat_id, sent)
                      ELSE vouches
            res == IF storage = "down"
                   THEN [vouches |-> vouches, nextRowId |-> nextRowId,
                         calls |-> [i \in DOMAIN args |->
                                       [args |-> args[i], ret |-> FALSE]]]
                   ELSE StoreAll(before, nextRowId, now, args, << >>)
        IN  /\ H.pc = "send"
            /\ IF ok
               THEN /\ chatLog' = PostMessage(chatLog, sent, BotUser, "repost")
                    /\ nextMsgId' = nextMsgId + 1
                    /\ vouches' = res.vouches
                    /\ nextRowId' = res.nextRowId
                    /\ storeCalls' = storeCalls \o
                           [i \in DOMAIN res.calls |->
                               [h |-> h, args |-> res.calls[i].args,
                                ret |-> res.calls[i].ret]]
                    /\ handlers' = [handlers EXCEPT ![h] =
                           [H EXCEPT !.sent = sent, !.pc = "ack"]]
               ELSE /\ handlers' = [handlers EXCEPT ![h] =
                           [H EXCEPT !.pc = IF H.path = "clean" THEN "failed"
                                            ELSE "done"]]
                    /\ UNCHANGED <<chatLog, nextMsgId, vouches, nextRowId, storeCalls>>
            /\ UNCHANGED <<username_history, storage, now,
                           vouch_retry_attempts, sync_state, last, processed, primeVars, restricted,
                           message_tracker, link_tracker, user_strikes>>

\* _send_temp_ack: the acknowledgement is sent, or the send raised; the handler
\* returns
SendAck ==
    \E h \in DOMAIN handlers, ok \in BOOLEAN :
        LET H == handlers[h]
        IN  /\ H.pc \in {"ack", "dup_ack"}
            /\ chatLog' = IF ok THEN PostMessage(chatLog, nextMsgId, BotUser, "ack")
                          ELSE chatLog
            /\ nextMsgId' = IF ok THEN nextMsgId + 1 ELSE nextMsgId
            /\ handlers' = [handlers EXCEPT ![h] = [H EXCEPT !.pc = "done"]]
            /\ UNCHANGED <<ledgerVars, now, last, storeCalls, processed, primeVars, restricted,
                           message_tracker, link_tracker, user_strikes>>

\* _delete_message_later: the task created by _send_temp_ack deletes the
\* acknowledgement
DeleteMessageLater ==
    \E i \in DOMAIN chatLog :
        /\ chatLog[i].kind = "ack"
        /\ ~chatLog[i].deleted
        /\ chatLog' = MarkDeleted(chatLog, chatLog[i].id)
        /\ UNCHANGED <<ledgerVars, now, last, handlers, nextMsgId, storeCalls,
                       processed, primeVars, restricted, message_tracker, link_tracker, user_strikes>>

\* non-vouch violation: `await message.delete()`, then record_violation
RemoveViolation ==
    \E h \in DOMAIN handlers, ok \in BOOLEAN :
        LET H == handlers[h]
            u == H.msg.from_user_id
        IN  /\ H.pc = "violation"
            /\ ok => ~IsDeleted(chatLog, H.msg.message_id)
            /\ chatLog' = IF ok THEN MarkDeleted(chatLog, H.msg.message_id) ELSE chatLog
            /\ user_strikes' = [user_strikes EXCEPT ![u] =
                   record_violation(user_strikes[u], now, H.decision.reason,
                                    H.decision.severity)]
            /\ handlers' = [handlers EXCEPT ![h] =
                   [H EXCEPT !.pc = "done", !.deleted = IF ok THEN "ok" ELSE "error"]]
            /\ UNCHANGED <<ledgerVars, now, last, nextMsgId, storeCalls, processed, primeVars, restricted,
                           message_tracker, link_tracker>>

\* the clock advances; a tick is hours long, a handler execution is not, so
\* ticks fall between handler executions
Tick ==
    /\ now < MaxTicks * TickSeconds
    /\ InFlight = {}
    /\ now' = now + TickSeconds
    /\ UNCHANGED <<ledgerVars, last, botVars>>

\* /mystats: get_user_status of the sender, between the handlings of two messages
GetUserStatus(Us) ==
    \E u \in Us :
        LET data == reset_if_needed(user_strikes[u], now)
        IN  /\ InFlight = {}
            /\ user_strikes' = [user_strikes EXCEPT ![u] = data]
            /\ last' = [op |-> "get_user_status", args |-> u, ok |-> TRUE,
                        n |-> data.strikes, reason |-> "",
                        ret |-> [strikes |-> data.strikes,
                                 last_violation |-> data.last_violation,
                                 violations |-> data.violations]]
            /\ UNCHANGED <<ledgerVars, now, handlers, chatLog, nextMsgId,
                           storeCalls, processed, primeVars, restricted, message_tracker, link_tracker>>

\* the answers of the local classifier and of the remote one
ToxNone == [status |-> "unavailable", label |-> "", score |-> 0]
ToxAnswers == {ToxNone, [status |-> "ok", label |-> "toxic", score |-> 90]}
AiNone ==
    [status |-> "disabled", verdict |-> "", severity |-> "", confidence |-> 0,
     numeric |-> TRUE]
AiAnswers ==
    {AiNone, [status |-> "ok", verdict |-> "VIOLATION", severity |-> "high",
              confidence |-> 90, numeric |-> TRUE]}

\* a rewrite the remote model can answer
TextRewritten == <<W("vouch"), M(Bob), W("great"), W("service")>>

\* vouch messages of one author, handled one at a time as Application
\* dispatches them
SpecBot ==
    Init /\ [][\/ Deliver({1}, {10}, {TextVouchBob, TextVouchBobCy, TextNegBob}, 1)
               \/ Analyze({ToxNone}, {AiNone})
               \/ DeleteOriginal
               \/ SendRepost
               \/ SendAck
               \/ DeleteMessageLater
               \/ Tick]_vars

\* messages of every kind from two authors, handled one at a time, within one
\* clock tick
SpecModerate ==
    Init /\ [][\/ Deliver(UserIds, {10},
                          {TextVouchBob, TextDirtyBob, TextKysBob, TextRequest, TextHello}, 1)
               \/ CreateVouchPoll
               \/ Analyze(ToxAnswers, AiAnswers)
               \/ Rewrite({<< >>, TextRewritten})
               \/ DeleteOriginal
               \/ SendRepost
               \/ SendAck
               \/ DeleteMessageLater
               \/ RemoveViolation]_vars

\* two vouch messages of one author handled concurrently
SpecConcurrent ==
    Init /\ [][\/ Deliver({1}, {10}, {TextVouchBob, TextRepBob}, 2)
               \/ Analyze({ToxNone}, {AiNone})
               \/ DeleteOriginal
               \/ SendRepost
               \/ SendAck
               \/ DeleteMessageLater
               \/ Tick]_vars

\* clean and dirty vouches of two authors, handled one at a time
SpecImmutable ==
    Init /\ [][\/ Deliver(UserIds, {10}, {TextVouchBob, TextDirtyBob}, 1)
               \/ Analyze({ToxNone}, {AiNone})
               \/ Rewrite({TextRewritten})
               \/ DeleteOriginal
               \/ SendRepost
               \/ SendAck]_vars

\* a dirty vouch and a violating message that is no vouch, handled while the
\* storage fails and recovers, and ledger operations called during the outage
SpecOutage ==
    Init /\ [][\/ DeliverUpTo({2}, {10}, {TextDirtyBob, TextMeth}, 1, OutageMsgs)
               \/ Analyze({ToxNone}, {AiNone})
               \/ Rewrite({TextRewritten})
               \/ DeleteOriginal
               \/ SendRepost
               \/ SendAck
               \/ RemoveViolation
               \/ StorageFails
               \/ StorageRecovers
               \/ LedgerCallFails]_vars

\* one user sending messages faster than the rate limit allows
SpecFlood ==
    Init /\ [][\/ DeliverUpTo({1}, {10}, {TextHello, TextMeth}, 1, FloodMsgs)
               \/ Analyze({ToxNone}, {AiNone})
               \/ RemoveViolation
               \/ RemoveFlood]_vars

\* violating messages, clean and dirty vouches of one user, over more than a
\* strike reset window, and another user sending messages faster than the
\* rate limit allows
SpecStrikes ==
    Init /\ [][\/ DeliverUpTo({1}, {10}, {TextVouchBob, TextDirtyBob}, 1, OutageMsgs)
               \/ DeliverUpTo({1}, {10}, {TextMeth}, 1, MaxMsgs)
               \/ DeliverUpTo({2}, {10}, {TextHello}, 1, FloodMsgs)
               \/ Analyze({ToxNone}, {AiNone})
               \/ Rewrite({TextRewritten})
               \/ DeleteOriginal
               \/ SendRepost
               \/ SendAck
               \/ RemoveViolation
               \/ RemoveFlood
               \/ Tick]_vars

\* violating and harmless messages of two users and their /mystats, over more
\* than a strike reset window
SpecStatus ==
    Init /\ [][\/ Deliver(UserIds, {10}, {TextMeth, TextHello}, 1)
               \/ Analyze({ToxNone}, {AiNone})
               \/ RemoveViolation
               \/ GetUserStatus(UserIds)
               \/ Tick]_vars

\* retry attempts of a user on two targets, tracked and cleared, with pauses
\* of exactly the retry window and of one second more
SpecRetry ==
    Init /\ [][\/ TrackRetry({1}, {10}, {AtBob, BobCaps, Al})
               \/ ClearRetry({1}, {10}, {AtBob, BobCaps, Al})
               \/ Elapse({VOUCH_RETRY_WINDOW_SECONDS,
                          VOUCH_RETRY_WINDOW_SECONDS + 1}, RetrySpan)]_vars

\* vouches of two authors in two chats, positive and negative, stored over
\* more than one day, and the leaderboard of the last day
SpecTop ==
    Init /\ [][\/ StoreVouchUpTo(
                      ApiStoreArgs(UserIds, {Bob, Cy}, {TextVouchBob}, {10}, {100})
                      \cup {[a EXCEPT !.polarity = "neg"] :
                               a \in ApiStoreArgs({1}, {Bob}, {TextNegBob}, {20}, {100})},
                      TopRows)
               \/ TopVouchers({Null, 10}, {1}, {1, 10}, {"pos", "all"})
               \/ Tick]_vars

\* messages with and without links of one user and messages of another one,
\* given to track_user_activity at once, 5 s or 10 s apart
SpecActivity ==
    Init /\ [][\/ TrackActivity({1}, {TextHello, TextLink})
               \/ TrackActivity({2}, {TextHello})
               \/ Elapse({RATE_LIMIT_WINDOW \div 2, RATE_LIMIT_WINDOW}, ActivitySpan)
              ]_vars

\* scans of two chats that find no, one or two vouches, recorded over time
SpecSync ==
    Init /\ [][\/ UpdateSyncState(ChatIds, MessageIds, {0, 1, 2})
               \/ Tick]_vars

\* violating messages of one author: a vouch, a request for vouches and a
\* message that is neither, and a harmless request, handled one at a time
SpecRemove ==
    Init /\ [][\/ Deliver({1}, {10},
                          {TextDirtyBob, TextMeth, TextRequestMeth, TextRequest}, 1)
               \/ CreateVouchPoll
               \/ Analyze({ToxNone}, {AiNone})
               \/ Rewrite({TextRewritten})
               \/ DeleteOriginal
               \/ SendRepost
               \/ SendAck
               \/ RemoveViolation]_vars

\* what an attempt of rewrite_vouch_with_ai can meet: the remote model is
\* disabled, the attempt fails, or an answer comes back, a rewrite or the
\* text as it was
RewriteReplies ==
    {[status |-> s, content |-> << >>] : s \in {"disabled", "timeout", "non200"}}
    \cup {[status |-> "ok", content |-> c] : c \in {TextRewritten, TextDirtyBob}}

\* a dirty vouch, the remote rewrite answering, failing or timing out at each
\* attempt
SpecRewrite ==
    Init /\ [][\/ DeliverUpTo({1}, {10}, {TextDirtyBob}, 1, OutageMsgs)
               \/ Analyze({ToxNone}, {AiNone})
               \/ RewriteAttempt(RewriteReplies, {"safe product"})
               \/ RewriteBackoff
               \/ DeleteOriginal
               \/ SendRepost
               \/ SendAck]_vars

\* a violating message and a vouch of one user, their updates delivered again
\* at once, within the deduplication window, at its end and after it
SpecDedup ==
    Init /\ [][\/ DeliverUpTo({1}, {10}, {TextMeth, TextVouchBob}, 1, OutageMsgs)
               \/ Redeliver(1, MaxDeliveries)
               \/ Analyze({ToxNone}, {AiNone})
               \/ DeleteOriginal
               \/ SendRepost
               \/ SendAck
               \/ RemoveViolation
               \/ Elapse({100, 200, MESSAGE_DEDUP_WINDOW + 1}, DedupSpan)]_vars

\* messages of two users given to layer3_velocity_check at once, a whole
\* window or a second more apart
SpecVelocity ==
    Init /\ [][\/ VelocityCheck(UserIds)
               \/ Elapse({MESSAGE_WINDOW_SECONDS, MESSAGE_WINDOW_SECONDS + 1},
                         VelocitySpan)]_vars

\* /deletevouch on stored vouches while the storage fails and recovers
SpecDeleteCommand ==
    Init /\ [][\/ StoreVouch(ApiStoreArgs({1}, {Bob}, {TextVouchBob}, {10}, {100}))
               \/ DeleteVouchCommand({100, 101}, {10}, UserIds)
               \/ StorageFails
               \/ StorageRecovers]_vars

\* what the local classifier can do when check_toxicity calls it
ToxOutcomes ==
    {ToxNone, [status |-> "raises", label |-> "", score |-> 0]}
    \cup [status : {"ok"}, label : {"toxic", "non-toxic"}, score : {79, 80, 100}]

\* what the remote classifier can do when analyze_with_ai calls it: the layer is
\* disabled, the request fails, or a JSON object with the four required fields
\* comes back, its confidence a number (in percent) or not
RemoteOutcomes ==
    [status : {"disabled", "error", "timeout", "non200", "badjson", "missing"},
     verdict : {""}, severity : {""}, confidence : {0}, numeric : {TRUE}]
    \cup [status : {"ok"}, verdict : {"SAFE", "VIOLATION"},
          severity : {"critical", "high", "medium", "low", "other"},
          confidence : {0, 69, 70, 74, 75, 79, 80, 100}, numeric : {TRUE}]
    \cup [status : {"ok"}, verdict : {"SAFE", "VIOLATION"},
          severity : {"critical", "high", "medium", "low", "other"},
          confidence : {0}, numeric : {FALSE}]

\* `await analyze_message(text, user_id)` on its own, its arguments and its
\* result kept in `last`; one call per behaviour
AnalyzeMessage(Xs, Tox, Remote) ==
    \E x \in Xs, tox \in Tox, remote \in Remote :
        LET d == check_message(x, tox, remote)
        IN  /\ last = NoCall
            /\ last' = [ok |-> ~d.raised, reason |-> "", n |-> 0,
                        op |-> "analyze_message",
                        args |-> [text |-> x, tox |-> tox, remote |-> remote],
                        ret |-> d]
            /\ UNCHANGED <<ledgerVars, now, botVars>>

SpecAnalyze ==
    Init /\ [][AnalyzeMessage({TextVouchBob, TextDirtyBob, TextDirtyBobCheap,
                               TextKysBob, TextRequest,
                               TextRequestCaps, TextHello, TextCritical, TextCriticalAlert},
                              ToxOutcomes, RemoteOutcomes)]_vars

\* texts whose mention contains a keyword, and texts with a keyword outside the
\* mention or with none, analyzed
SpecMentions ==
    Init /\ [][AnalyzeMessage({TextMentionPreteen, TextMentionKys, TextKysBob,
                               TextHello},
                              ToxOutcomes, RemoteOutcomes)]_vars

----------------------------------------------------------------------------
(* Claims about the vouch handlers *)

\* C12: check_message consults the pattern matcher, then the local toxicity
\* classifier, then the remote classifier, and stops at the first layer that
\* reports a violation: the layers consulted are exactly those up to the first
\* deciding one, the reason and the severity of the decision are that layer's,
\* and is_vouch on the decision is is_vouch(text) whichever layer decided
C12_FirstViolatingLayerDecides ==
    (last.op = "analyze_message" /\ ~last.ret.raised) =>
        LET a == last.args
            d == last.ret
            pat == check_patterns(a.text)
            tox == check_toxicity(a.tox)
            rem == check_remote(a.remote)
            DecidedBy(v, layers) ==
                /\ d.should_remove
                /\ d.reason = v.reason
                /\ d.severity = v.severity
                /\ d.layers = layers
        IN  /\ d.is_vouch = is_vouch(a.text)
            /\ IF pat.violation THEN DecidedBy(pat, <<"pattern">>)
               ELSE IF tox.violation THEN DecidedBy(tox, <<"pattern", "toxicity">>)
               ELSE IF a.remote.status = "disabled"
               THEN ~d.should_remove /\ d.layers = <<"pattern", "toxicity">>
               ELSE IF rem.violation
               THEN DecidedBy(rem, <<"pattern", "toxicity", "remote">>)
               ELSE /\ ~d.should_remove
                    /\ d.layers = <<"pattern", "toxicity", "remote">>

\* a vouch with a banned keyword was analyzed while the local classifier said
\* toxic and the remote one said violation: the pattern matcher decided alone
C12_Witness ==
    /\ last.op = "analyze_message"
    /\ check_patterns(last.args.text).violation
    /\ check_toxicity(last.args.tox).violation
    /\ check_remote(last.args.remote).violation
    /\ last.ret.layers = <<"pattern">>
    /\ last.ret.is_vouch

\* C13: when the remote classifier fails (transport error, timeout, non-200
\* status, malformed or incomplete response) or the local classifier is not
\* loaded or raises, analyze_message still returns a decision, the failed layer
\* having no opinion: the decision is the one of the other layers, clean with
\* severity low when none of them found a violation
C13_ClassifierFailureIsNoOpinion ==
    last.op = "analyze_message" =>
        LET a == last.args
            d == last.ret
            remoteFailed ==
                \/ a.remote.status \in {"error", "timeout", "non200", "badjson", "missing"}
                \/ a.remote.status = "ok" /\ ~a.remote.numeric
            toxFailed == a.tox.status \in {"unavailable", "raises"}
            others == check_message(a.text,
                                    IF toxFailed THEN ToxNone ELSE a.tox,
                                    IF remoteFailed THEN AiNone ELSE a.remote)
        IN  (remoteFailed \/ toxFailed) =>
                /\ ~d.raised
                /\ d.should_remove = others.should_remove
                /\ d.severity = others.severity
                /\ d.reason = others.reason
                /\ ~others.should_remove => d.severity = "low"

\* C14: when the remote layer is reached and answers a well-formed analysis, it
\* is accepted exactly when the verdict is VIOLATION and the severity is
\* critical (any confidence), high with confidence >= 0.70, medium with
\* confidence >= 0.75 or low with confidence >= 0.80; the decision then carries
\* the remote severity; SAFE or a confidence below the threshold is clean
C14_RemoteVerdictThresholds ==
    ( /\ last.op = "analyze_message"
      /\ ~check_patterns(last.args.text).violation
      /\ ~check_toxicity(last.args.tox).violation
      /\ last.args.remote.status = "ok"
      /\ last.args.remote.numeric ) =>
        LET r == last.args.remote
            d == last.ret
            accepted ==
                /\ r.verdict = "VIOLATION"
                /\ \/ r.severity = "critical"
                   \/ r.severity = "high" /\ r.confidence >= 70
                   \/ r.severity = "medium" /\ r.confidence >= 75
                   \/ r.severity = "low" /\ r.confidence >= 80
        IN  /\ ~d.raised
            /\ d.should_remove = accepted
            /\ d.severity = IF accepted THEN r.severity ELSE "low"

\* the remote layer was reached and accepted a medium verdict at confidence
\* 0.75 exactly
C14_Witness ==
    /\ last.op = "analyze_message"
    /\ ~check_patterns(last.args.text).violation
    /\ ~check_toxicity(last.args.tox).violation
    /\ last.args.remote.status = "ok"
    /\ last.args.remote.verdict = "VIOLATION"
    /\ last.args.remote.severity = "medium"
    /\ last.args.remote.confidence = 75
    /\ last.args.remote.numeric
    /\ last.ret.should_remove
    /\ last.ret.severity = "medium"

\* C15: a ledger operation whose storage raises returns its safe default: the
\* empty list for search_vouches, get_top_vouchers and
\* get_prior_vouchers_for_target, False for store_vouch,
\* check_vouch_duplicate_24h and update_vouch_message_id, 0 for
\* update_vouches_with_resolved_user_id and count_user_vouches, (False, reason)
\* for delete_vouch_by_message; and no exception reaches handle_text_message:
\* every message is classified as without an outage, and the removal of a
\* violating message is attempted
C15_LedgerOutageIsContained ==
    /\ last.op \in {"search_vouches", "get_top_vouchers",
                    "get_prior_vouchers_for_target"} => last.ret = [rows |-> << >>]
    /\ last.op \in {"store_vouch", "check_vouch_duplicate_24h",
                    "update_vouch_message_id"} => last.ret = [ok |-> FALSE]
    /\ last.op \in {"update_vouches_with_resolved_user_id", "count_user_vouches"}
          => last.ret = [n |-> 0]
    /\ last.op = "delete_vouch_by_message" =>
          DOMAIN last.ret = {"ok", "message"} /\ ~last.ret.ok
    /\ \A h \in DOMAIN handlers :
          LET H == handlers[h]
              d == check_message(H.msg.text, ToxNone, AiNone)
          IN  /\ H.pc # "failed"
              /\ H.pc # "analyze" => H.decision = d
              /\ (H.pc = "done" /\ d.should_remove) => H.deleted # "no"

\* during an outage a dirty vouch was handled to the end: its message was
\* removed, the store_vouch call of its handler returned False and left no row
C15_Witness ==
    /\ storage = "down"
    /\ vouches = << >>
    /\ \E h \in DOMAIN handlers :
          /\ handlers[h].pc = "done"
          /\ handlers[h].path = "dirty"
          /\ handlers[h].deleted = "ok"
          /\ \E c \in DOMAIN storeCalls : storeCalls[c].h = h /\ ~storeCalls[c].ret
    /\ last.op = "store_vouch"

\* C16: no reply to a user contains the text of an internal exception: after a
\* storage error during /deletevouch the reply is a notice without the error
\* string
C16_NoExceptionTextInReply ==
    last.op = "deletevouch_command" => last.reply.error # StorageErrorText

\* C17: no delete or repost of a message is attempted before analyze_message
\* has returned for that message
C17_NoActionBeforeClassification ==
    \A h \in DOMAIN handlers :
        (handlers[h].deleted # "no" \/ handlers[h].sent # Null) =>
            handlers[h].decision.layers # << >>

\* C18: a text that contains a zero-tolerance critical phrase is a violation of
\* severity critical for check_patterns, also when it contains an allow-listed
\* phrase
C18_CriticalOverridesAllowList ==
    ( /\ last.op = "analyze_message"
      /\ HasAnyPhrase(LowerText(last.args.text), CriticalKeywords) ) =>
        /\ check_patterns(last.args.text).violation
        /\ check_patterns(last.args.text).severity = "critical"

\* C19: a text that matches a vouch-request pattern is no vouch for is_vouch,
\* also when it contains vouch vocabulary and a mention
C19_RequestIsNoVouch ==
    ( /\ last.op = "analyze_message"
      /\ HasAnyPhrase(LowerText(last.args.text), RequestPhrases) ) =>
        /\ ~is_vouch(last.args.text)
        /\ ~last.ret.raised => ~last.ret.is_vouch

\* a request in capitals with the word vouch and a mention was analyzed, and
\* the decision says it is no vouch
C19_Witness ==
    /\ last.op = "analyze_message"
    /\ last.args.text = TextRequestCaps
    /\ HasAnyPhrase(LowerText(last.args.text), RequestPhrases)
    /\ \E i \in DOMAIN last.args.text : IsMention(last.args.text[i])
    /\ ~last.ret.raised
    /\ ~last.ret.is_vouch

\* C20: for a vouch-like text whose only mention is the author's own handle,
\* compared case-insensitively, extract_vouch_info returns None
C20_NoSelfTarget ==
    \A h \in DOMAIN handlers :
        LET H == handlers[h]
            author == UsernameOf(H.msg.from_user_id)
            mentions == extract_mentions(H.msg.text)
        IN  ( /\ is_vouch(H.msg.text)
              /\ mentions # << >>
              /\ \A i \in DOMAIN mentions : Lower(mentions[i]) = Lower(author) ) =>
                ~extract_vouch_info(H.msg.text, author).ok

\* C31: when handle_text_message has returned for a message whose text the
\* classification pipeline answers with should_remove = true, the deletion of
\* that message has been requested from the chat, whether the message is a
\* vouch, a request for vouches or neither
C31_RemovableMessageIsDeleted ==
    \A h \in DOMAIN handlers :
        LET H == handlers[h]
        IN  (/\ H.pc = "done"
             /\ check_message(H.msg.text, ToxNone, AiNone).should_remove)
            => H.deleted # "no"

\* C32: no row of the ledger has a target handle equal to the handle of its
\* author, compared without '@' and case-insensitively, whichever handler
\* stored it
C32_NoRowTargetsItsAuthor ==
    \A i \in DOMAIN vouches :
        Lower(LStripAt(vouches[i].to_username))
            # Lower(LStripAt(vouches[i].from_username))

\* C33: check_patterns reports a violation for a text only if it reports one
\* for the text with its @mentions blanked: what stands inside a mention
\* never causes a violation
C33_MentionNeverCausesViolation ==
    last.op = "analyze_message" =>
        (check_patterns(last.args.text).violation
            => check_patterns(strip_mentions(last.args.text)).violation)

\* C34: a resolve_username call, with any username and id, leaves the
\* to_user_id of every row that holds a non-zero id as it is
C34_BackfillIsOneTime ==
    [][ last'.op = "resolve" =>
            \A i \in DOMAIN vouches :
                vouches[i].to_user_id \notin {Null, 0} =>
                    /\ i \in DOMAIN vouches'
                    /\ vouches'[i].to_user_id = vouches[i].to_user_id ]_vars

\* the last resolve_username call named the chat and the username of a row
\* that an earlier call had resolved, with another id, updated nothing, and
\* the row holds the earlier id
C34_Witness ==
    /\ last.op = "resolve"
    /\ last.n = 0
    /\ \E i \in DOMAIN vouches :
          /\ ResolveMatchResolved(vouches[i], last.args.chat_id,
                                  Lower(LStripAt(last.args.username)))
          /\ vouches[i].to_user_id \notin {Null, 0, last.args.user_id}

\* C40: a resolve_username call with a chat filter neither adds nor removes a
\* row, changes no column but to_user_id, and changes the to_user_id only of
\* rows of that chat that target that username (compared without '@' and
\* without case) and held no id, or 0, before; such a row now holds the id of
\* the call
C40_ResolveChangesOnlyItsRows ==
    [][ (last'.op = "resolve" /\ last'.args.chat_id # Null) =>
            /\ DOMAIN vouches' = DOMAIN vouches
            /\ \A i \in DOMAIN vouches :
                  LET r == vouches[i]
                      q == vouches'[i]
                  IN  /\ [q EXCEPT !.to_user_id = r.to_user_id] = r
                      /\ q # r =>
                            /\ r.chat_id = last'.args.chat_id
                            /\ r.to_username # NoneStr
                            /\ Lower(LStripAt(r.to_username)) =
                                   Lower(LStripAt(last'.args.username))
                            /\ r.to_user_id \in {Null, 0}
                            /\ q.to_user_id = last'.args.user_id ]_vars

\* the last resolve_username call, for chat 10 and '@bob', gave its id to the
\* row of chat 10 that targets bob; the row of chat 20 that targets bob holds
\* no id
C40_Witness ==
    /\ last.op = "resolve"
    /\ last.args = [chat_id |-> 10, username |-> AtBob, user_id |-> 2]
    /\ last.n = 1
    /\ \E i, j \in DOMAIN vouches :
          /\ vouches[i].chat_id = 10
          /\ vouches[i].to_username = Bob
          /\ vouches[i].to_user_id = 2
          /\ vouches[j].chat_id = 20
          /\ vouches[j].to_username = Bob
          /\ vouches[j].to_user_id = Null

\* C35: after every step, rewrite_vouch_with_ai has made at most 2 remote
\* attempts and sleeps only after a failed attempt that is not the last; while a
\* handler awaits the rewrite, each return of a request or of a sleep ends the
\* wait or lowers a rank that stays above 0, so the call returns after at most
\* 2 requests and 1 sleep. When every attempt failed, both attempts were made and the
\* content handle_dirty_vouch goes on with is sanitize_text of the original text
C35_RewriteEndsAfterTwoAttempts ==
    [][LET Waits(H) == H.pc \in {"rewrite", "backoff"}
           Rank(H) == 2 * (2 - Len(H.replies)) + (IF H.pc = "backoff" THEN 1 ELSE 0)
       IN  /\ \A h \in DOMAIN handlers' :
                 LET H == handlers'[h]
                 IN  /\ Len(H.replies) <= 2
                     /\ Waits(H) => Rank(H) > 0
                     /\ H.pc = "backoff" =>
                           /\ Len(H.replies) < 2
                           /\ H.replies[Len(H.replies)] \in RewriteFailures
                     /\ ( /\ H.path = "dirty"
                          /\ ~Waits(H)
                          /\ \A i \in DOMAIN H.replies :
                                H.replies[i] \in RewriteFailures )
                        => /\ H.replies # << >> => Len(H.replies) = 2
                           /\ \E filler \in FillerChoices :
                                 H.content = sanitize_text(H.msg.text, filler, FALSE)
           /\ \A h \in DOMAIN handlers :
                 (Waits(handlers[h]) /\ handlers'[h] # handlers[h]) =>
                     \/ ~Waits(handlers'[h])
                     \/ Rank(handlers'[h]) < Rank(handlers[h])]_vars

\* a dirty vouch whose rewrite failed twice, by a timeout and by an error
\* status, has been handled to the end: the sanitized text was reposted and a
\* row stored
C35_Witness ==
    \E h \in DOMAIN handlers :
        LET H == handlers[h]
        IN  /\ H.path = "dirty"
            /\ H.pc = "done"
            /\ H.replies = <<"timeout", "non200">>
            /\ H.content = sanitize_text(H.msg.text, "safe product", FALSE)
            /\ H.sent # Null
            /\ \E i \in DOMAIN vouches :
                  vouches[i].is_sanitized /\ vouches[i].message_id = H.sent

\* C36: when layer3_velocity_check returns true for a message of a user, that
\* user has sent more than MAX_MESSAGES_PER_WINDOW messages, this one
\* included, within the MESSAGE_WINDOW_SECONDS before it. (Until the first
\* cleanup velocity_tracker holds the time of every call.)
C36_VelocityCountsWindowOnly ==
    (last.op = "layer3_velocity_check" /\ last.ok) =>
        LET ts == velocity_tracker[last.args.user_id]
            recent == {i \in DOMAIN ts :
                          /\ ts[i] <= last.args.t
                          /\ ts[i] >= last.args.t - MESSAGE_WINDOW_SECONDS}
        IN  Cardinality(recent) > MAX_MESSAGES_PER_WINDOW

\* C37: once the handling of the non-vouch violation that brought a user's
\* strike count to MAX_STRIKES has returned, the chat has that user muted. (No
\* time passes in SpecFlood, so a mute, had it been set, could not have run
\* out.)
C37_ThirdStrikeMutes ==
    \A h \in DOMAIN handlers :
        LET H == handlers[h]
            u == H.msg.from_user_id
        IN  (/\ H.pc = "done"
             /\ H.decision.should_remove
             /\ ~H.decision.is_vouch
             /\ user_strikes[u].strikes >= MAX_STRIKES)
            => u \in restricted

\* C38: an update delivered for a (chat_id, message_id) that was processed
\* MESSAGE_DEDUP_WINDOW seconds ago or less is dropped: that execution of
\* handle_text_message returns at once, and the rate-limit trackers, the
\* strikes, the chat, the ledger and the store_vouch calls are as before; the
\* entry of the first delivery stays. So two processed deliveries of one
\* message are more than MESSAGE_DEDUP_WINDOW apart.
C38_RepeatedDeliveryDoesNothing ==
    [][\A e \in processed :
          (/\ Len(handlers') = Len(handlers) + 1
           /\ LET m == handlers'[Len(handlers')].msg
              IN  <<m.chat_id, m.message_id>> = e.key
           /\ now - e.ts <= MESSAGE_DEDUP_WINDOW)
          => /\ handlers'[Len(handlers')] =
                    NewHandler(handlers'[Len(handlers')].msg, "done")
             /\ e \in processed'
             /\ UNCHANGED <<message_tracker, link_tracker, user_strikes, chatLog,
                            storeCalls, ledgerVars, last>>]_vars

\* a violating message was processed and cost its author a strike; 300 s later
\* its update was delivered again and dropped
C38_Witness ==
    /\ Len(handlers) = 2
    /\ handlers[1].msg = handlers[2].msg
    /\ handlers[1].decision.should_remove
    /\ handlers[1].pc = "done"
    /\ handlers[2] = NewHandler(handlers[1].msg, "done")
    /\ now = MESSAGE_DEDUP_WINDOW
    /\ processed = {[key |-> <<10, handlers[1].msg.message_id>>, ts |-> 0]}
    /\ user_strikes[1].strikes = 1
    /\ Len(message_tracker[1]) = 1

\* C21: the handling of a message records exactly one violation for its author
\* when the decision is should_remove and not is_vouch: the strike count
\* becomes the previous count plus one, or one when more than 24 h have passed
\* since the last violation; such a decision always leads to the recording;
\* flood deletions, clean vouches and dirty vouches change no strike counter
C21_OneStrikePerNonVouchViolation ==
    [][LET recorded == {h \in DOMAIN handlers :
                          /\ handlers[h].decision.should_remove
                          /\ ~handlers[h].decision.is_vouch
                          /\ handlers[h].pc # "done"
                          /\ handlers'[h].pc = "done"}
           Elapsed(d) == /\ d.last_violation # Null
                         /\ d.strikes > 0
                         /\ now - d.last_violation > 24 * 3600
       IN  /\ Cardinality(recorded) <= 1
           /\ \A u \in UserIds :
                 user_strikes'[u].strikes =
                     IF \E h \in recorded : handlers[h].msg.from_user_id = u
                     THEN IF Elapsed(user_strikes[u]) THEN 1
                          ELSE user_strikes[u].strikes + 1
                     ELSE user_strikes[u].strikes
           /\ \A h \in DOMAIN handlers :
                 ( /\ handlers[h].pc = "analyze"
                   /\ handlers'[h].decision.should_remove
                   /\ ~handlers'[h].decision.is_vouch ) =>
                     handlers'[h].pc \notin {"done", "failed"}]_vars

\* two violating messages of a user were removed more than 24 h apart, and
\* the second one left the user with one strike
C21_Witness ==
    /\ user_strikes[1].strikes = 1
    /\ Len(user_strikes[1].violations) = 1
    /\ Cardinality({h \in DOMAIN handlers :
                       /\ handlers[h].pc = "done"
                       /\ handlers[h].msg.from_user_id = 1
                       /\ handlers[h].decision.should_remove
                       /\ ~handlers[h].decision.is_vouch}) = 2

\* C22: the strike count that get_user_status and record_violation observe is
\* reset to zero, the violations emptied, once more than 24 h have passed
\* since the last violation and never before; between two resets the count is
\* the number of violations recorded since the last reset
C22_StrikesResetAfterWindow ==
    [][\A u \in UserIds :
         LET d == user_strikes[u]
             d2 == user_strikes'[u]
             elapsed == /\ d.last_violation # Null
                        /\ d.strikes > 0
                        /\ now - d.last_violation > 24 * 3600
             status == /\ last'.op = "get_user_status"
                       /\ last'.args = u
                       /\ last.op = "get_user_status" => last' # last
         IN  /\ d2.strikes = Len(d2.violations)
             /\ status =>
                   /\ last'.ret.strikes = (IF elapsed THEN 0 ELSE d.strikes)
                   /\ last'.ret.violations =
                          (IF elapsed THEN << >> ELSE d.violations)
                   /\ d2.strikes = last'.ret.strikes
             /\ d2 # d =>
                   IF elapsed
                   THEN d2.strikes \in {0, 1}
                   ELSE /\ d2.strikes = d.strikes + 1
                        /\ SubSeq(d2.violations, 1, d.strikes) = d.violations]_vars

\* /mystats shows no strike to a user whose violation is more than 24 h old
C22_Witness ==
    /\ last.op = "get_user_status"
    /\ last.ret.strikes = 0
    /\ user_strikes[last.args].last_violation # Null
    /\ now - user_strikes[last.args].last_violation > 24 * 3600

\* C23: within the retry window track_vouch_retry_attempt returns, for the key
\* (user, chat, target without '@' and in lower case), the number of calls made
\* for that key since it was last cleared or reset: 1 on the first call, one
\* more on each later one, and the rows of the other keys are left as they were
C23_RetryCountPerKey ==
    [][( /\ last'.op = "track_vouch_retry_attempt"
         /\ vouch_retry_attempts' # vouch_retry_attempts ) =>
       LET a == last'.args
           SameKey(r) == /\ r.user_id = a.user_id
                         /\ r.chat_id = a.chat_id
                         /\ r.target_username = Lower(LStripAt(a.target_username))
           old == {r \in vouch_retry_attempts : SameKey(r)}
           new == {r \in vouch_retry_attempts' : SameKey(r)}
       IN  /\ old = {} => last'.n = 1
           /\ \A r \in old :
                 now - r.last_attempt_time <= 300 => last'.n = r.attempt_count + 1
           /\ \E r \in new : new = {r} /\ r.attempt_count = last'.n
           /\ vouch_retry_attempts' \ new = vouch_retry_attempts \ old]_vars

\* the third attempt on a target, made with another spelling of the handle
\* exactly 300 s after the second, returns 3 while another key has its own count
C23_Witness ==
    /\ last.op = "track_vouch_retry_attempt"
    /\ last.n = 3
    /\ last.args.target_username = BobCaps
    /\ \E r \in last.existing : now - r.last_attempt_time = 300
    /\ \E r \in vouch_retry_attempts :
          r.target_username = Al /\ r.attempt_count = 1

\* C24: when the previous attempt for a key is more than 300 s old, the next
\* track_vouch_retry_attempt for that key starts the count again and returns 1
C24_RetryCountResetsAfterWindow ==
    [][( /\ last'.op = "track_vouch_retry_attempt"
         /\ vouch_retry_attempts' # vouch_retry_attempts ) =>
       LET a == last'.args
           SameKey(r) == /\ r.user_id = a.user_id
                         /\ r.chat_id = a.chat_id
                         /\ r.target_username = Lower(LStripAt(a.target_username))
       IN  \A r \in vouch_retry_attempts :
              ( SameKey(r) /\ now - r.last_attempt_time > 300 ) =>
                  /\ last'.n = 1
                  /\ \E r2 \in vouch_retry_attempts' :
                        /\ SameKey(r2)
                        /\ r2.attempt_count = 1
                        /\ r2.last_attempt_time = now]_vars

\* an attempt made 301 s after the second one for its key returned 1
C24_Witness ==
    /\ last.op = "track_vouch_retry_attempt"
    /\ last.n = 1
    /\ \E r \in last.existing :
          r.attempt_count = 2 /\ now - r.last_attempt_time = 301

\* C25: after clear_vouch_retry_attempts for a key the next
\* track_vouch_retry_attempt for that key returns 1, and the clearing leaves
\* the counters of the other keys unchanged
C25_ClearRestartsCount ==
    [][LET Key(a) == <<a.user_id, a.chat_id, Lower(LStripAt(a.target_username))>>
           RowKey(r) == <<r.user_id, r.chat_id, r.target_username>>
       IN  /\ ( /\ last'.op = "clear_vouch_retry_attempts"
                /\ \/ last.op # "clear_vouch_retry_attempts"
                   \/ last' # last
                   \/ vouch_retry_attempts' # vouch_retry_attempts ) =>
                  /\ \A r \in vouch_retry_attempts' : RowKey(r) # Key(last'.args)
                  /\ \A r \in vouch_retry_attempts :
                        RowKey(r) # Key(last'.args) => r \in vouch_retry_attempts'
           /\ ( /\ last'.op = "track_vouch_retry_attempt"
                /\ vouch_retry_attempts' # vouch_retry_attempts
                /\ last.op = "clear_vouch_retry_attempts"
                /\ Key(last.args) = Key(last'.args) ) => last'.n = 1]_vars

\* a clearing deleted the row of a key, the next call tracked an attempt for
\* that key and returned 1, and another key still has two attempts
C25_Witness ==
    /\ last.op = "track_vouch_retry_attempt"
    /\ last.n = 1
    /\ last.after.op = "clear_vouch_retry_attempts"
    /\ last.after.n = 1
    /\ last.after.args.user_id = last.args.user_id
    /\ Lower(LStripAt(last.after.args.target_username))
          = Lower(LStripAt(last.args.target_username))
    /\ \E r \in vouch_retry_attempts : r.attempt_count = 2

\* C26: search_vouches returns exactly the rows, newest first and at most
\* limit of them, of which the author handle, the target handle, the author
\* display name or the target display name contains the query, without its
\* leading '@', as a case-insensitive literal substring, among the rows of the
\* chat and of the polarity asked for
C26_SearchIsLiteralSubstring ==
    \A query \in {Bob, AtBob, BobCaps, <<"o">>, <<"b", "_", "b">>},
       chat_id \in {Null, 10}, polarity \in {"", "pos"},
       limit \in {1, DefaultSearchLimit} :
        LET q == Lower(LStripAt(query))
            HasQuery(col) ==
                /\ col # NoneStr
                /\ \E k \in 0..(Len(col) - Len(q)) : SubSeq(col, k + 1, k + Len(q)) = q
            Wanted(r) ==
                /\ \/ HasQuery(r.from_username_lower)
                   \/ HasQuery(r.to_username_lower)
                   \/ HasQuery(r.from_display_name_lower)
                   \/ HasQuery(r.to_display_name_lower)
                /\ chat_id # Null => r.chat_id = chat_id
                /\ polarity # "" => r.polarity = polarity
            wanted == {i \in DOMAIN vouches : Wanted(vouches[i])}
            res == search_vouches(vouches, query, chat_id, polarity, limit)
        IN  /\ \A k \in DOMAIN res : \E i \in wanted : vouches[i] = res[k]
            /\ Len(res) = IF Cardinality(wanted) < limit THEN Cardinality(wanted)
                          ELSE limit
            /\ \A k \in 1..(Len(res) - 1) : res[k].timestamp >= res[k + 1].timestamp
            /\ \A i \in wanted :
                  (\A k \in DOMAIN res : res[k] # vouches[i]) =>
                      \A k \in DOMAIN res : res[k].timestamp >= vouches[i].timestamp

C28_DrugVouchIsHighSeverity ==
    ( /\ last.op = "analyze_message"
      /\ last.args.text \in {TextDirtyBob, TextDirtyBobCheap}
      /\ ~last.ret.raised ) =>
        /\ last.ret.should_remove
        /\ last.ret.is_vouch
        /\ last.ret.severity = "high"

\* C29: track_user_activity flags a message as flooding if and only if, this
\* message counted, the user has sent more than 5 messages within the last
\* 10 s: every message of the user sent less than 10 s ago counts, flagged or
\* not, the older ones do not, and the messages of other users change nothing
C29_FloodIffOverRateLimit ==
    [][( /\ last'.op = "track_user_activity"
         /\ \/ message_tracker' # message_tracker
            \/ link_tracker' # link_tracker ) =>
       LET u == last'.args.user_id
           Within(tracker) == {i \in DOMAIN tracker : now - tracker[i] < 10}
           sent == Cardinality(Within(message_tracker[u])) + 1
       IN  /\ (last'.reason = "Message flooding") <=> (sent > 5)
           /\ Cardinality(Within(message_tracker'[u])) = sent
           /\ \A v \in UserIds \ {u} : message_tracker'[v] = message_tracker[v]]_vars

\* the sixth message of a user within 10 s is flagged as flooding while five
\* messages of another user are in the same window, and the first of the six
\* was sent 5 s before
C29_Witness ==
    /\ last.op = "track_user_activity"
    /\ last.reason = "Message flooding"
    /\ last.n = 6
    /\ last.args.user_id = 1
    /\ Len(message_tracker[2]) = 5
    /\ now - message_tracker[1][1] = 5

\* C30: after any sequence of update_sync_state calls there is exactly one
\* sync-state row for each chat that was scanned; each call adds its
\* vouches_found to the total of its chat, which is therefore the sum over
\* all the calls for the chat and never decreases, and sets the cursor to its
\* last_message_id; the rows of the other chats are untouched
C30_OneSyncRowPerChat ==
    [][( /\ last'.op = "update_sync_state"
         /\ sync_state' # sync_state ) =>
       LET a == last'.args
           old == {r \in sync_state : r.chat_id = a.chat_id}
           new == {r \in sync_state' : r.chat_id = a.chat_id}
       IN  /\ Cardinality(old) <= 1
           /\ \E r \in new :
                 /\ new = {r}
                 /\ r.last_scanned_message_id = a.last_message_id
                 /\ old = {} => r.vouches_found_total = a.vouches_found
                 /\ \A o \in old :
                       r.vouches_found_total = o.vouches_found_total + a.vouches_found
           /\ sync_state' \ new = sync_state \ old]_vars

\* a second scan of a chat found two more vouches: the row of the chat has
\* the total of the two scans and the new cursor, next to the row of another chat
C30_Witness ==
    /\ last.op = "update_sync_state"
    /\ last.args.vouches_found = 2
    /\ \E r \in sync_state :
          /\ r.chat_id = last.args.chat_id
          /\ r.vouches_found_total = 3
          /\ r.last_scanned_message_id = last.args.last_message_id
    /\ \E r \in sync_state : r.chat_id # last.args.chat_id

\* C11: once a row is stored, no step of the handlers changes any of its fields
\* other than to_user_id: message id, author, target, polarity, texts, chat and
\* timestamp of a row stay as stored for as long as the row is in the ledger
C11_StoredRowIsImmutable ==
    [][\A i \in DOMAIN vouches : \A j \in DOMAIN vouches' :
          vouches[i].id = vouches'[j].id =>
              [vouches'[j] EXCEPT !.to_user_id = vouches[i].to_user_id] = vouches[i]]_vars

\* handle_dirty_vouch has reposted, and so called update_vouch_message_id, in a
\* chat whose ledger held a row of an earlier repost, and a row has had its
\* to_user_id backfilled
C11_Witness ==
    /\ \E h \in DOMAIN handlers :
          /\ handlers[h].path = "dirty"
          /\ handlers[h].sent # Null
          /\ \E i \in DOMAIN vouches :
                /\ vouches[i].chat_id = handlers[h].msg.chat_id
                /\ vouches[i].message_id < handlers[h].sent
    /\ \E i \in DOMAIN vouches : vouches[i].to_user_id # Null

\* C3: for the same (author, target, polarity), a vouch within 24 h of the
\* previous one never reaches store_vouch (check_vouch_duplicate_24h suppresses
\* it), and a vouch that does reach store_vouch, being more than 24 h after the
\* previous one, is stored as a distinct new row.
C3_VouchAfter24hIsStoredAgain ==
    [][ \A k \in (Len(storeCalls) + 1)..Len(storeCalls') :
          LET a == storeCalls'[k].args
          IN  /\ ~check_vouch_duplicate_24h(vouches, now, a.from_user_id,
                                            a.to_username, a.polarity)
              /\ storeCalls'[k].ret
              /\ \E i \in DOMAIN vouches' :
                    /\ \A j \in DOMAIN vouches : vouches[j].id # vouches'[i].id
                    /\ vouches'[i].from_user_id = a.from_user_id
                    /\ vouches'[i].to_username = a.to_username
                    /\ vouches'[i].polarity = a.polarity ]_vars

CallsOf(h) ==
    LET Mine(c) == c.h = h
    IN  SelectSeq(storeCalls, Mine)

Returned(H) == H.pc \in {"done", "failed"}

\* C5: a message whose decision is is_vouch and should_remove never leads to a
\* store_vouch call, whatever the reason and whichever attempt it is, and once
\* it is handled the deletion of the original message has been requested.
C5_DirtyVouchLeavesNoRow ==
    \A h \in DOMAIN handlers :
        (handlers[h].decision.is_vouch /\ handlers[h].decision.should_remove) =>
            /\ CallsOf(h) = << >>
            /\ Returned(handlers[h]) => handlers[h].deleted # "no"

\* C6: for a clean vouch with at least one target that is not a duplicate, the
\* original message is never deleted and every row stored for it carries the
\* chat id and message id of the original message.
C6_CleanVouchKeepsOriginal ==
    \A h \in DOMAIN handlers :
        LET H == handlers[h]
        IN  (H.decision.is_vouch /\ ~H.decision.should_remove /\ H.entries # << >>) =>
                /\ ~IsDeleted(chatLog, H.msg.message_id)
                /\ \A k \in DOMAIN storeCalls :
                      storeCalls[k].h = h =>
                          /\ storeCalls[k].args.chat_id = H.msg.chat_id
                          /\ storeCalls[k].args.message_id = H.msg.message_id

\* C7: once a clean vouch message is handled, store_vouch has been called
\* exactly once for each handle it mentions, other than the author and counted
\* case-insensitively, that was not a 24 h duplicate; a duplicate target does
\* not keep the other targets from being stored.
C7_OneStoreCallPerFreshTarget ==
    \A h \in DOMAIN handlers :
        LET H == handlers[h]
            author == Lower(UsernameOf(H.msg.from_user_id))
            handles == {Lower(m) : m \in Range(extract_mentions(H.msg.text))}
                       \ {author}
        IN  (H.decision.is_vouch /\ ~H.decision.should_remove /\ Returned(H)) =>
                /\ {Lower(t) : t \in Range(H.targets)} = handles
                /\ Len(H.targets) = Cardinality(handles)
                /\ Len(CallsOf(h)) = Len(H.entries)
                /\ \A i \in DOMAIN H.entries :
                      CallsOf(h)[i].args.to_username = H.entries[i].target

\* C39: when the handling of a clean vouch has deleted the original message and
\* at least one target was not a duplicate, the handler has returned without
\* raising and has called store_vouch for each such target (which stores a
\* row unless the ledger holds the vouch already), whether or not the send of
\* the repost went through.
C39_SendFailureLosesNoVouch ==
    \A h \in DOMAIN handlers :
        LET H == handlers[h]
        IN  (/\ H.path = "clean"
             /\ H.deleted = "ok"
             /\ H.entries # << >>
             /\ Returned(H))
            => /\ H.pc = "done"
               /\ \A i \in DOMAIN H.entries :
                     \E k \in DOMAIN storeCalls :
                         /\ storeCalls[k].h = h
                         /\ storeCalls[k].args.to_username = H.entries[i].target

----------------------------------------------------------------------------
(* Claims about the ledger called directly *)

\* the idempotency key the data model names: author, chat, origin message id,
\* lower-cased target handle
SameIdempotencyKey(r, q) ==
    /\ r.from_user_id = q.from_user_id
    /\ r.chat_id = q.chat_id
    /\ r.message_id = q.message_id
    /\ normalize_for_index(r.to_username) = normalize_for_index(q.to_username)

\* C1: after any sequence of store, delete and resolve_username calls no two
\* ledger rows share (author id, chat id, origin message id, lower-cased target),
\* whatever the other arguments of the store calls were.
C1_NoTwoRowsShareIdempotencyKey ==
    \A i, j \in DOMAIN vouches :
        i # j => ~SameIdempotencyKey(vouches[i], vouches[j])

\* C2: of two consecutive store_vouch calls with the same (author, chat, origin
\* message id, target), the first returns True, the second returns False and
\* leaves the ledger unchanged: exactly one row is stored.
C2_StoreTwiceStoresOneRow ==
    [][ ( /\ last.op = "store"
          /\ last'.op = "store"
          /\ SameIdempotencyKey(last.args, last'.args) )
        => ( /\ last'.ok = FALSE
             /\ vouches' = vouches ) ]_vars

\* the rows a step removes from the ledger
RemovedRows == {r \in Range(vouches) : \A q \in Range(vouches') : q.id # r.id}

\* C8: a delete_vouch_by_message call removes rows only of the requester, or any
\* matching row when is_admin; it succeeds only then, and a rejected or
\* not-found call returns (False, reason) and leaves the ledger unchanged.
C8_DeleteOnlyByAuthorOrAdmin ==
    [][ last'.op = "delete" =>
          LET a == last'.args
          IN  /\ \A r \in RemovedRows :
                    /\ DeleteMatch(r, a.message_id, a.chat_id)
                    /\ a.is_admin \/ r.from_user_id = a.user_id
              /\ last'.ok => RemovedRows # {}
              /\ ~last'.ok => /\ vouches' = vouches
                              /\ last'.reason \in {"not_found", "not_owner"}
              /\ \A i \in DOMAIN vouches' : vouches'[i] \in Range(vouches) ]_vars

\* C8 witness: a non-admin deleted their own row while the row another author
\* stored under the same message id and chat is still in the ledger.
C8_Witness ==
    /\ last.op = "delete"
    /\ last.ok
    /\ ~last.args.is_admin
    /\ \E i \in DOMAIN vouches :
          /\ DeleteMatch(vouches[i], last.args.message_id, last.args.chat_id)
          /\ vouches[i].from_user_id # last.args.user_id

\* the rows of username u that resolve_username(chat_id, u, ...) addresses
TargetsUsername(r, chat_id, norm) ==
    /\ r.to_username_lower = norm
    /\ (chat_id = Null \/ r.chat_id = chat_id)

\* C9: after resolve_username(chat, u, id) every previously unresolved row of
\* that chat targeting u has to_user_id = id, and a later search by u, or by a
\* username mapped to the same id afterwards, returns those rows.
C9_BackfillAndAliasSearch ==
    /\ (last.op = "resolve" /\ Truthy(last.args.username)) =>
          LET norm == Lower(LStripAt(last.args.username))
          IN  \A i \in DOMAIN vouches :
                  TargetsUsername(vouches[i], last.args.chat_id, norm) =>
                      \/ vouches[i].to_user_id = last.args.user_id
                      \/ \E k \in DOMAIN username_history :
                            /\ username_history[k].username_lower = norm
                            /\ username_history[k].user_id = vouches[i].to_user_id
    /\ \A p, q \in DOMAIN username_history :
          (p <= q /\ username_history[p].user_id = username_history[q].user_id) =>
              \A i \in DOMAIN vouches :
                  ( /\ vouches[i].to_username_lower = username_history[p].username_lower
                    /\ vouches[i].to_user_id = username_history[p].user_id ) =>
                      vouches[i] \in Range(search_vouches(
                          vouches, username_history[q].username_lower,
                          vouches[i].chat_id, "", DefaultSearchLimit))

\* C10: a second resolve_username call with the same (chat, username, id)
\* returns 0 and leaves the vouch rows and the username history as they were.
C10_ResolveTwiceChangesNothing ==
    [][ ( /\ last.op = "resolve"
          /\ last'.op = "resolve"
          /\ last'.args = last.args
          /\ Truthy(last.args.username) )
        => ( /\ last'.n = 0
             /\ vouches' = vouches
             /\ username_history' = username_history ) ]_vars

====
